---- MODULE Spec2Model ----
(***************************************************************************)
(* Location-tracking lifecycle of LocationScreen                           *)
(* (src/app/(tabs)/location.tsx, lines 22-448).                            *)
(*                                                                         *)
(* React state (useState) and refs (useRef) are the variables; every       *)
(* handler and every resumption of an async function after an `await` of   *)
(* a provider call is one action.  The microtask continuations that follow *)
(* a resumption (finally blocks, the return into the awaiting caller) run  *)
(* in the same step.  A state setter of an unmounted component is dropped  *)
(* by React; refs, timers and provider calls keep working after unmount.   *)
(***************************************************************************)
EXTENDS Integers, Sequences, FiniteSets, TLC

\* ------------------------------------------------------------------ bounds
MaxTicks    == 1      \* the clock stops after this many ticks
MaxUpdates  == 2      \* position updates (one-shot fixes + watch callbacks)
MaxCalls    == 4      \* invocations of the async handlers, the mount's included
MaxWaits    == 31     \* clock steps of the tracking-session scenario
MaxSaves    == 2      \* saveTask invocations that pass validation
MaxItems    == 2      \* item rows of the add-task form

\* Every subscription is opened by its own startLocationTracking call, and
\* the mount's call is a requestLocationPermission.
MaxSubs     == MaxCalls - 1

\* ------------------------------------------------------- program constants
DebounceMs == 1000    \* setTimeout(..., 1000)
TickMs     == DebounceMs   \* the model's clock moves in whole debounce periods
WaitMs     == DebounceMs \div 5   \* clock step of the tracking-session scenario

\* ------------------------------------------------------------ value spaces
Null        == 0                       \* a null ref
NoLocation  == << >>                   \* location === null
NoError     == "null"                  \* error === null
Undefined   == -1                      \* an absent number (accuracy, startTime)
NoAddress   == "undefined"             \* location.address absent

\* Provider readings (coords), latitude and longitude in micro-degrees.  The
\* second reading reports accuracy 0, which is falsy in `|| undefined`.
Readings    == { [ latitude |-> 40000000, longitude |-> -73000000, accuracy |-> 5 ],
                 [ latitude |-> 40001000, longitude |-> -73001000, accuracy |-> 0 ] }

\* Await points.  A startLocationTracking suspended at watchPositionAsync
\* still holds its local `status`: "start_watch" when the background
\* permission was granted, "start_watch_fg" when it was refused.
PCs == { "req_svc", "req_perm", "req_fix", "get_fix", "start_bg", "start_watch",
         "start_watch_fg" }

VARIABLES
  mounted,                 \* the component is mounted
  location,                \* useState<LocationData | null>: << >> or <<record>>
  isTracking,              \* useState(false)
  isLoading,               \* useState(false)
  error,                   \* useState<LocationError | null>: the error code
  startTime,               \* currentTask.startTime
  confirmOpen,             \* the "Complete Delivery" confirmation is showing
  locationSubscription,    \* useRef: id of the held subscription or Null
  reverseGeocodeTimeout,   \* useRef: id of the last scheduled timer or Null
  subs,                    \* provider: subscription id -> "none" | "live" | "removed"
  releases,                \* provider: subscription id -> number of remove() calls
  timers,                  \* JS runtime: scheduled, not yet fired or cleared timers
  geocoding,               \* reverseGeocodeAsync calls in flight
  pending,                 \* await point -> number of invocations suspended there
  fgGranted,               \* OS: foreground permission currently granted
  now,                     \* Date.now() in ms
  nUpdates,                \* history: number of position updates so far
  calls,                   \* history: async handler invocations so far
  lastUpdate,              \* history: the latest position update
  \* TasksScreen, the add-task variant of the location tab (2038-2443)
  showAddTaskModal,        \* useState(false)
  completedTasks,          \* useState<CompletedTask[]>([])
  shopName,                \* useState('')
  shopLocation,            \* useState('')
  items,                   \* useState<TaskItem[]>: the form's item rows
  saving,                  \* saveTask invocations awaiting their GPS fix
  nSaves,                  \* history: saveTask invocations that passed validation
  \* TasksScreen of tasks.tsx ("My Tasks")
  tasks,                   \* useState<Task[]>(mockTasks)
  selectedTask,            \* useState<Task | null>(null): a copy of a task
  showTaskDetail,          \* useState(false)
  filter,                  \* useState('all')
  \* DashboardScreen (index.tsx)
  dashboardMounted,        \* the dashboard is mounted
  stats,                   \* useState<DashboardStats>
  refreshing,              \* useState(false)
  refreshDue,              \* due time of onRefresh's timer, or Undefined
  showNewTaskModal,        \* useState(false)
  newTask,                 \* useState<NewTask | null>(null)
  newTaskTimer,            \* the mount effect's timer: "pending" | "fired" | "cleared"
  \* ProfileScreen (profile.tsx)
  isEditing,               \* useState(false)
  showAvatarPicker,        \* useState(false)
  profile,                 \* useState<UserProfile>
  editableProfile          \* useState<UserProfile>(profile)

locationVars == << mounted, location, isTracking, isLoading, error, startTime,
                   confirmOpen, locationSubscription, reverseGeocodeTimeout,
                   subs, releases, timers, geocoding, pending, fgGranted, now,
                   nUpdates, lastUpdate, calls >>

taskFormVars  == << showAddTaskModal, completedTasks, shopName, shopLocation,
                    items, saving, nSaves >>
myTasksVars   == << tasks, selectedTask, showTaskDetail, filter >>
dashboardVars == << dashboardMounted, stats, refreshing, refreshDue,
                    showNewTaskModal, newTask, newTaskTimer >>
profileVars   == << isEditing, showAvatarPicker, profile, editableProfile >>

\* The state of the screens other than the location screen.
otherScreens == << taskFormVars, myTasksVars, dashboardVars, profileVars >>

vars == << locationVars, otherScreens >>

uiState  == << location, isTracking, isLoading, error, startTime >>

\* ----------------------------------------------------------------- helpers
InFlight == pending["req_svc"] + pending["req_perm"] + pending["req_fix"]
            + pending["get_fix"] + pending["start_bg"] + pending["start_watch"]
            + pending["start_watch_fg"]

Inc(p, k) == [p EXCEPT ![k] = @ + 1]
Dec(p, k) == [p EXCEPT ![k] = @ - 1]
Move(p, from, to) == Inc(Dec(p, from), to)

\* A state setter: dropped when the component is no longer mounted.
SetState(cur, new) == IF mounted THEN new ELSE cur

LiveSubs == { i \in DOMAIN subs : subs[i] = "live" }

\* Mutant: clearTimeout that cancels nothing.
clearTimeoutNoop(ts, id) == ts

\* clearTimeout(id): the timer with that id, if still scheduled, is dropped.
clearTimeout(ts, id) == { t \in ts : t.id # id }

\* The refs and the resources they name, as one value.
Resources == [ locationSubscription  |-> locationSubscription,
               reverseGeocodeTimeout |-> reverseGeocodeTimeout,
               subs                  |-> subs,
               releases              |-> releases,
               timers                |-> timers,
               isTracking            |-> isTracking ]

\* --------------------------------------------------- formatAddress (158-168)
Join(parts) ==
  LET RECURSIVE J(_)
      J(i) == IF i = Len(parts) THEN parts[i] ELSE parts[i] \o ", " \o J(i + 1)
  IN  J(1)

\* Mutant: city is pushed before district.
formatAddressCityFirst(address) ==
  LET p1 == IF address.name     # "" THEN << address.name >>     ELSE << >>
      p2 == IF address.street   # "" THEN << address.street >>   ELSE << >>
      p3 == IF address.district # "" THEN << address.district >> ELSE << >>
      p4 == IF address.city     # "" THEN << address.city >>     ELSE << >>
      p5 == IF address.region   # "" THEN << address.region >>   ELSE << >>
      parts == p1 \o p2 \o p4 \o p3 \o p5
  IN  IF Len(parts) > 0 THEN Join(parts) ELSE "Unknown location"

formatAddress(address) ==
  LET p1 == IF address.name     # "" THEN << address.name >>     ELSE << >>
      p2 == IF address.street   # "" THEN << address.street >>   ELSE << >>
      p3 == IF address.district # "" THEN << address.district >> ELSE << >>
      p4 == IF address.city     # "" THEN << address.city >>     ELSE << >>
      p5 == IF address.region   # "" THEN << address.region >>   ELSE << >>
      parts == p1 \o p2 \o p3 \o p4 \o p5
  IN  IF Len(parts) > 0 THEN Join(parts) ELSE "Unknown location"

\* What the reverse-geocode provider knows about a coordinate.
GeocodedAddress(lat, lon) ==
  [ name     |-> "",
    street   |-> IF lat = 40000000 THEN "Main St" ELSE "Oak Ave",
    district |-> "",
    city     |-> "Springfield",
    region   |-> "" ]

\* Mutant: the outstanding timer is not cleared before the new one is set.
reverseGeocodeNoClear(r, id, lat, lon) ==
  [ r EXCEPT !.timers = r.timers \cup
                { [ id |-> id, latitude |-> lat, longitude |-> lon,
                    due |-> now + DebounceMs ] },
             !.reverseGeocodeTimeout = id ]

\* Mutant: the geocode is scheduled without the debounce delay.
reverseGeocodeNoDelay(r, id, lat, lon) ==
  LET cleared == IF r.reverseGeocodeTimeout # Null
                 THEN clearTimeout(r.timers, r.reverseGeocodeTimeout)
                 ELSE r.timers
  IN  [ r EXCEPT !.timers = cleared \cup
                    { [ id |-> id, latitude |-> lat, longitude |-> lon,
                        due |-> now ] },
                 !.reverseGeocodeTimeout = id ]

\* ------------------------------------------------ reverseGeocode (120-156)
\* Clears the timer the ref names, schedules a new one DebounceMs out and
\* stores its id in the ref.  The timer id is the index of the position
\* update that scheduled it.  r is a Resources value.
reverseGeocode(r, id, lat, lon) ==
  LET cleared == IF r.reverseGeocodeTimeout # Null
                 THEN clearTimeout(r.timers, r.reverseGeocodeTimeout)
                 ELSE r.timers
  IN  [ r EXCEPT !.timers = cleared \cup
                    { [ id |-> id, latitude |-> lat, longitude |-> lon,
                        due |-> now + DebounceMs ] },
                 !.reverseGeocodeTimeout = id ]

\* Mutant: the subscription is removed but the ref keeps the handle.
stopLocationTrackingKeepsRef(r) ==
  LET r1 == IF r.locationSubscription # Null
            THEN [ r EXCEPT !.subs[r.locationSubscription] = "removed",
                            !.releases[r.locationSubscription] = @ + 1 ]
            ELSE r
      r2 == IF r1.reverseGeocodeTimeout # Null
            THEN [ r1 EXCEPT !.timers = clearTimeout(r1.timers, r1.reverseGeocodeTimeout),
                             !.reverseGeocodeTimeout = Null ]
            ELSE r1
  IN  [ r2 EXCEPT !.isTracking = FALSE ]

\* Mutant: the pending debounce timer is left alone.
stopLocationTrackingKeepsTimer(r) ==
  LET r1 == IF r.locationSubscription # Null
            THEN [ r EXCEPT !.subs[r.locationSubscription] = "removed",
                            !.releases[r.locationSubscription] = @ + 1,
                            !.locationSubscription = Null ]
            ELSE r
  IN  [ r1 EXCEPT !.isTracking = FALSE ]

\* -------------------------------------------- stopLocationTracking (223-235)
stopLocationTracking(r) ==
  LET r1 == IF r.locationSubscription # Null
            THEN [ r EXCEPT !.subs[r.locationSubscription] = "removed",
                            !.releases[r.locationSubscription] = @ + 1,
                            !.locationSubscription = Null ]
            ELSE r
      r2 == IF r1.reverseGeocodeTimeout # Null
            THEN [ r1 EXCEPT !.timers = clearTimeout(r1.timers, r1.reverseGeocodeTimeout),
                             !.reverseGeocodeTimeout = Null ]
            ELSE r1
  IN  [ r2 EXCEPT !.isTracking = FALSE ]

\* Writes a Resources value back to the variables.
Install(r) ==
  /\ locationSubscription'  = r.locationSubscription
  /\ reverseGeocodeTimeout' = r.reverseGeocodeTimeout
  /\ subs'                  = r.subs
  /\ releases'              = r.releases
  /\ timers'                = r.timers
  /\ isTracking'            = r.isTracking

UnchangedResources ==
  UNCHANGED << locationSubscription, reverseGeocodeTimeout, subs, releases,
               timers, isTracking >>

\* ------------------------------------------------------ the other screens
NoTask == [ id |-> "null" ]             \* selectedTask / newTask === null

\* mockTasks (tasks.tsx 22-82), each task by its id and status.
mockTasks == << [ id |-> "1", status |-> "pending" ],
                [ id |-> "2", status |-> "in-progress" ],
                [ id |-> "3", status |-> "completed" ],
                [ id |-> "4", status |-> "delayed" ] >>

\* mockNewTask (index.tsx 40-49), by its id and shop.
mockNewTask == [ id |-> "1", shopName |-> "ABC Electronics Store" ]

\* The blank item row of the add-task form.
BlankItem == [ name |-> "", quantity |-> "" ]

\* Every other screen as its useState initial values leave it.
OtherScreensInit ==
  /\ showAddTaskModal = FALSE
  /\ completedTasks = << >>
  /\ shopName = ""
  /\ shopLocation = ""
  /\ items = << BlankItem >>
  /\ saving = {}
  /\ nSaves = 0
  /\ tasks = mockTasks
  /\ selectedTask = NoTask
  /\ showTaskDetail = FALSE
  /\ filter = "all"
  /\ dashboardMounted = TRUE
  /\ stats = [ assignedTasks |-> 12, completedTasks |-> 38 ]
  /\ refreshing = FALSE
  /\ refreshDue = Undefined
  /\ showNewTaskModal = FALSE
  /\ newTask = NoTask
  /\ newTaskTimer = "pending"
  /\ isEditing = FALSE
  /\ showAvatarPicker = FALSE
  /\ profile = [ name |-> "Sarah Johnson", phone |-> "+1 (555) 123-4567",
                 avatar |-> 1 ]
  /\ editableProfile = profile

\* --------------------------------------------------------------------- Init
\* The state right after the mount effect (38-40) has called
\* requestLocationPermission, which runs up to its first await (50-56).
Init ==
  /\ mounted = TRUE
  /\ location = NoLocation
  /\ isTracking = FALSE
  /\ isLoading = TRUE
  /\ error = NoError
  /\ startTime = Undefined
  /\ confirmOpen = FALSE
  /\ locationSubscription = Null
  /\ reverseGeocodeTimeout = Null
  /\ subs = [ i \in 1..MaxSubs |-> "none" ]
  /\ releases = [ i \in 1..MaxSubs |-> 0 ]
  /\ timers = {}
  /\ geocoding = {}
  /\ pending = [ k \in PCs |-> IF k = "req_svc" THEN 1 ELSE 0 ]
  /\ fgGranted = FALSE
  /\ now = 0
  /\ nUpdates = 0
  /\ calls = 1
  /\ lastUpdate = [ id |-> 0, t |-> 0, latitude |-> 0, longitude |-> 0 ]
  /\ OtherScreensInit

\* ------------------------------------------------------- UI gating (JSX)
\* The user can press a control only while no modal alert covers the screen.
UiFree == mounted /\ ~confirmOpen

\* Retry is rendered only inside the error banner (322-333).
RetryEnabled == error # NoError

\* Mutant: Start stays on screen while tracking.
StartEnabledWhileTracking == ~isLoading /\ error = NoError

\* Start is rendered while !isTracking, disabled={isLoading || !!error} (409-417).
StartEnabled == ~isTracking /\ ~isLoading /\ error = NoError

\* Stop is rendered while isTracking (418-422).
StopEnabled == isTracking

\* Complete Delivery: disabled={!location} (425-432).
CompleteEnabled == location # NoLocation

\* Refresh Location: disabled={isLoading} (434-443).
RefreshEnabled == ~isLoading

\* ------------------------------------ requestLocationPermission (50-88)
\* Retry pressed: runs up to the await of hasServicesEnabledAsync.
Retry ==
  /\ UiFree /\ RetryEnabled
  /\ calls < MaxCalls
  /\ calls' = calls + 1
  /\ isLoading' = TRUE
  /\ error' = NoError
  /\ pending' = Inc(pending, "req_svc")
  /\ UnchangedResources
  /\ UNCHANGED << mounted, location, startTime, confirmOpen, geocoding,
                  fgGranted, now, nUpdates, lastUpdate >>
  /\ UNCHANGED otherScreens

\* Mutant: the `return` after LOCATION_DISABLED is missing, so the handler
\* goes on to request the foreground permission.
ReqServicesNoReturn(outcome) ==
  /\ pending["req_svc"] > 0
  /\ CASE outcome = "enabled" ->
            /\ pending' = Move(pending, "req_svc", "req_perm")
            /\ UNCHANGED << error, isLoading >>
       [] outcome = "disabled" ->
            /\ pending' = Move(pending, "req_svc", "req_perm")
            /\ error' = SetState(error, "LOCATION_DISABLED")
            /\ isLoading' = SetState(isLoading, FALSE)
       [] outcome = "throw" ->
            /\ pending' = Dec(pending, "req_svc")
            /\ error' = SetState(error, "PERMISSION_ERROR")
            /\ isLoading' = SetState(isLoading, FALSE)
  /\ UnchangedResources
  /\ UNCHANGED << mounted, location, startTime, confirmOpen, geocoding,
                  fgGranted, now, nUpdates, lastUpdate, calls >>
  /\ UNCHANGED otherScreens

\* Mutant: there is no catch block, so a rejected service check escapes the
\* handler; only the `finally` runs.
ReqServicesThrowEscapes(outcome) ==
  /\ pending["req_svc"] > 0
  /\ CASE outcome = "enabled" ->
            /\ pending' = Move(pending, "req_svc", "req_perm")
            /\ UNCHANGED << error, isLoading >>
       [] outcome = "disabled" ->
            /\ pending' = Dec(pending, "req_svc")
            /\ error' = SetState(error, "LOCATION_DISABLED")
            /\ isLoading' = SetState(isLoading, FALSE)
       [] outcome = "throw" ->
            /\ pending' = Dec(pending, "req_svc")
            /\ isLoading' = SetState(isLoading, FALSE)
            /\ UNCHANGED error
  /\ UnchangedResources
  /\ UNCHANGED << mounted, location, startTime, confirmOpen, geocoding,
                  fgGranted, now, nUpdates, lastUpdate, calls >>
  /\ UNCHANGED otherScreens

\* hasServicesEnabledAsync settles (56-64, 79-87).
ReqServices(outcome) ==
  /\ pending["req_svc"] > 0
  /\ CASE outcome = "enabled" ->
            /\ pending' = Move(pending, "req_svc", "req_perm")
            /\ UNCHANGED << error, isLoading >>
       [] outcome = "disabled" ->
            /\ pending' = Dec(pending, "req_svc")
            /\ error' = SetState(error, "LOCATION_DISABLED")
            /\ isLoading' = SetState(isLoading, FALSE)
       [] outcome = "throw" ->
            /\ pending' = Dec(pending, "req_svc")
            /\ error' = SetState(error, "PERMISSION_ERROR")
            /\ isLoading' = SetState(isLoading, FALSE)
  /\ UnchangedResources
  /\ UNCHANGED << mounted, location, startTime, confirmOpen, geocoding,
                  fgGranted, now, nUpdates, lastUpdate, calls >>
  /\ UNCHANGED otherScreens

\* Mutant: the `return` after PERMISSION_DENIED is missing, so the handler
\* goes on to getCurrentLocation.
ReqForegroundNoReturn(outcome) ==
  /\ pending["req_perm"] > 0
  /\ CASE outcome = "granted" ->
            /\ pending' = Move(pending, "req_perm", "req_fix")
            /\ fgGranted' = TRUE
            /\ isLoading' = SetState(isLoading, TRUE)
            /\ UNCHANGED error
       [] outcome = "denied" ->
            /\ pending' = Move(pending, "req_perm", "req_fix")
            /\ fgGranted' = FALSE
            /\ error' = SetState(error, "PERMISSION_DENIED")
            /\ isLoading' = SetState(isLoading, TRUE)
       [] outcome = "throw" ->
            /\ pending' = Dec(pending, "req_perm")
            /\ error' = SetState(error, "PERMISSION_ERROR")
            /\ isLoading' = SetState(isLoading, FALSE)
            /\ UNCHANGED fgGranted
  /\ UnchangedResources
  /\ UNCHANGED << mounted, location, startTime, confirmOpen, geocoding,
                  now, nUpdates, lastUpdate, calls >>
  /\ UNCHANGED otherScreens

\* requestForegroundPermissionsAsync settles (67-78, 79-87); on "granted"
\* getCurrentLocation starts and runs up to its own await (90-96).
ReqForeground(outcome) ==
  /\ pending["req_perm"] > 0
  /\ CASE outcome = "granted" ->
            /\ pending' = Move(pending, "req_perm", "req_fix")
            /\ fgGranted' = TRUE
            /\ isLoading' = SetState(isLoading, TRUE)
            /\ UNCHANGED error
       [] outcome = "denied" ->
            /\ pending' = Dec(pending, "req_perm")
            /\ fgGranted' = FALSE
            /\ error' = SetState(error, "PERMISSION_DENIED")
            /\ isLoading' = SetState(isLoading, FALSE)
       [] outcome = "throw" ->
            /\ pending' = Dec(pending, "req_perm")
            /\ error' = SetState(error, "PERMISSION_ERROR")
            /\ isLoading' = SetState(isLoading, FALSE)
            /\ UNCHANGED fgGranted
  /\ UnchangedResources
  /\ UNCHANGED << mounted, location, startTime, confirmOpen, geocoding,
                  now, nUpdates, lastUpdate, calls >>
  /\ UNCHANGED otherScreens

\* ------------------------------------------- getCurrentLocation (90-118)
\* Refresh pressed: runs up to the await of getCurrentPositionAsync.
Refresh ==
  /\ UiFree /\ RefreshEnabled
  /\ calls < MaxCalls
  /\ calls' = calls + 1
  /\ isLoading' = TRUE
  /\ pending' = Inc(pending, "get_fix")
  /\ UnchangedResources
  /\ UNCHANGED << mounted, location, error, startTime, confirmOpen, geocoding,
                  fgGranted, now, nUpdates, lastUpdate >>
  /\ UNCHANGED otherScreens

\* Mutant: a successful fix leaves the loading flag set.
FixSuccessKeepsLoading(k, coords) ==
  /\ pending[k] > 0
  /\ fgGranted
  /\ nUpdates < MaxUpdates
  /\ LET id == nUpdates + 1
         locationData == [ latitude  |-> coords.latitude,
                           longitude |-> coords.longitude,
                           timestamp |-> now,
                           accuracy  |-> IF coords.accuracy # 0 THEN coords.accuracy
                                                               ELSE Undefined,
                           address   |-> NoAddress ]
     IN  /\ location' = SetState(location, << locationData >>)
         /\ Install(reverseGeocode(Resources, id, locationData.latitude,
                                   locationData.longitude))
         /\ nUpdates' = id
         /\ lastUpdate' = [ id |-> id, t |-> now,
                            latitude  |-> coords.latitude,
                            longitude |-> coords.longitude ]
  /\ pending' = Dec(pending, k)
  /\ UNCHANGED << mounted, isLoading, error, startTime, confirmOpen, geocoding,
                  fgGranted, now, calls >>
  /\ UNCHANGED otherScreens

\* Mutant: a successful fix also clears the error.
FixSuccessClearsError(k, coords) ==
  /\ pending[k] > 0
  /\ fgGranted
  /\ nUpdates < MaxUpdates
  /\ LET id == nUpdates + 1
         locationData == [ latitude  |-> coords.latitude,
                           longitude |-> coords.longitude,
                           timestamp |-> now,
                           accuracy  |-> IF coords.accuracy # 0 THEN coords.accuracy
                                                               ELSE Undefined,
                           address   |-> NoAddress ]
     IN  /\ location' = SetState(location, << locationData >>)
         /\ Install(reverseGeocode(Resources, id, locationData.latitude,
                                   locationData.longitude))
         /\ nUpdates' = id
         /\ lastUpdate' = [ id |-> id, t |-> now,
                            latitude  |-> coords.latitude,
                            longitude |-> coords.longitude ]
  /\ isLoading' = SetState(isLoading, FALSE)
  /\ error' = SetState(error, NoError)
  /\ pending' = Dec(pending, k)
  /\ UNCHANGED << mounted, startTime, confirmOpen, geocoding,
                  fgGranted, now, calls >>
  /\ UNCHANGED otherScreens

\* getCurrentPositionAsync resolves (98-108, 115-117; for the call nested in
\* requestLocationPermission also 85-87).  k is the await point.  The
\* provider hands out a reading only while the foreground permission is
\* granted; without it the call rejects (FixFailure).
FixSuccess(k, coords) ==
  /\ pending[k] > 0
  /\ fgGranted
  /\ nUpdates < MaxUpdates
  /\ LET id == nUpdates + 1
         locationData == [ latitude  |-> coords.latitude,
                           longitude |-> coords.longitude,
                           timestamp |-> now,
                           accuracy  |-> IF coords.accuracy # 0 THEN coords.accuracy
                                                               ELSE Undefined,
                           address   |-> NoAddress ]
     IN  /\ location' = SetState(location, << locationData >>)
         /\ Install(reverseGeocode(Resources, id, locationData.latitude,
                                   locationData.longitude))
         /\ nUpdates' = id
         /\ lastUpdate' = [ id |-> id, t |-> now,
                            latitude  |-> coords.latitude,
                            longitude |-> coords.longitude ]
  /\ isLoading' = SetState(isLoading, FALSE)
  /\ pending' = Dec(pending, k)
  /\ UNCHANGED << mounted, error, startTime, confirmOpen, geocoding,
                  fgGranted, now >>
  /\ UNCHANGED calls
  /\ UNCHANGED otherScreens

\* Mutant: the `finally` that clears the loading flag is missing.
FixFailureNoFinally(k) ==
  /\ pending[k] > 0
  /\ error' = SetState(error, "LOCATION_ERROR")
  /\ pending' = Dec(pending, k)
  /\ UnchangedResources
  /\ UNCHANGED << mounted, location, isLoading, startTime, confirmOpen,
                  geocoding, fgGranted, now, nUpdates, lastUpdate, calls >>
  /\ UNCHANGED otherScreens

\* Mutant: the catch block also blanks the known position.
FixFailureClearsLocation(k) ==
  /\ pending[k] > 0
  /\ error' = SetState(error, "LOCATION_ERROR")
  /\ location' = SetState(location, NoLocation)
  /\ isLoading' = SetState(isLoading, FALSE)
  /\ pending' = Dec(pending, k)
  /\ UnchangedResources
  /\ UNCHANGED << mounted, startTime, confirmOpen, geocoding,
                  fgGranted, now, nUpdates, lastUpdate, calls >>
  /\ UNCHANGED otherScreens

\* getCurrentPositionAsync rejects (109-117).
FixFailure(k) ==
  /\ pending[k] > 0
  /\ error' = SetState(error, "LOCATION_ERROR")
  /\ isLoading' = SetState(isLoading, FALSE)
  /\ pending' = Dec(pending, k)
  /\ UnchangedResources
  /\ UNCHANGED << mounted, location, startTime, confirmOpen, geocoding,
                  fgGranted, now, nUpdates, lastUpdate, calls >>
  /\ UNCHANGED otherScreens

\* ------------------------------------ reverseGeocode timer body (128-152)
\* The debounce timer fires: reverseGeocodeAsync is called with the
\* coordinates the timer closed over.  The ref keeps the fired timer's id.
TimerFire(t) ==
  /\ t \in timers
  /\ now >= t.due
  /\ timers' = timers \ { t }
  /\ geocoding' = geocoding \cup
        { [ id |-> t.id, latitude |-> t.latitude, longitude |-> t.longitude ] }
  /\ UNCHANGED << mounted, location, isTracking, isLoading, error, startTime,
                  confirmOpen, locationSubscription, reverseGeocodeTimeout,
                  subs, releases, pending, fgGranted, now, nUpdates, lastUpdate, calls >>
  /\ UNCHANGED otherScreens

\* Mutant: a failed geocode is escalated to the error banner.
GeocodeSettleEscalates(g, outcome) ==
  /\ g \in geocoding
  /\ geocoding' = geocoding \ { g }
  /\ CASE outcome = "ok" ->
            /\ location' = SetState(location,
                  IF location # NoLocation
                  THEN << [ location[1] EXCEPT !.address =
                             formatAddress(GeocodedAddress(g.latitude, g.longitude)) ] >>
                  ELSE NoLocation)
            /\ UNCHANGED error
       [] outcome = "empty" ->
            /\ UNCHANGED << location, error >>
       [] outcome = "throw" ->
            /\ location' = SetState(location,
                  IF location # NoLocation
                  THEN << [ location[1] EXCEPT !.address = "Address unavailable" ] >>
                  ELSE NoLocation)
            /\ error' = SetState(error, "LOCATION_ERROR")
  /\ UNCHANGED << mounted, isTracking, isLoading, startTime,
                  confirmOpen, locationSubscription, reverseGeocodeTimeout,
                  subs, releases, timers, pending, fgGranted, now, nUpdates,
                  lastUpdate, calls >>
  /\ UNCHANGED otherScreens

\* Mutant: a resolved address is stored together with the coordinates it
\* was resolved for.
GeocodeSettleOverwritesCoords(g, outcome) ==
  /\ g \in geocoding
  /\ geocoding' = geocoding \ { g }
  /\ CASE outcome = "ok" ->
            /\ location' = SetState(location,
                  IF location # NoLocation
                  THEN << [ location[1] EXCEPT
                             !.latitude = g.latitude,
                             !.longitude = g.longitude,
                             !.address =
                               formatAddress(GeocodedAddress(g.latitude, g.longitude)) ] >>
                  ELSE NoLocation)
       [] outcome = "empty" ->
            /\ UNCHANGED location
       [] outcome = "throw" ->
            /\ location' = SetState(location,
                  IF location # NoLocation
                  THEN << [ location[1] EXCEPT !.address = "Address unavailable" ] >>
                  ELSE NoLocation)
  /\ UNCHANGED << mounted, isTracking, isLoading, error, startTime,
                  confirmOpen, locationSubscription, reverseGeocodeTimeout,
                  subs, releases, timers, pending, fgGranted, now, nUpdates,
                  lastUpdate, calls >>
  /\ UNCHANGED otherScreens

\* Mutant: a failed reverse geocoding blanks the position.
GeocodeSettleClearsLocation(g, outcome) ==
  /\ g \in geocoding
  /\ geocoding' = geocoding \ { g }
  /\ CASE outcome = "ok" ->
            /\ location' = SetState(location,
                  IF location # NoLocation
                  THEN << [ location[1] EXCEPT !.address =
                             formatAddress(GeocodedAddress(g.latitude, g.longitude)) ] >>
                  ELSE NoLocation)
       [] outcome = "empty" ->
            /\ UNCHANGED location
       [] outcome = "throw" ->
            /\ location' = SetState(location, NoLocation)
  /\ UNCHANGED << mounted, isTracking, isLoading, error, startTime,
                  confirmOpen, locationSubscription, reverseGeocodeTimeout,
                  subs, releases, timers, pending, fgGranted, now, nUpdates,
                  lastUpdate, calls >>
  /\ UNCHANGED otherScreens

\* reverseGeocodeAsync settles (135-151).
GeocodeSettle(g, outcome) ==
  /\ g \in geocoding
  /\ geocoding' = geocoding \ { g }
  /\ CASE outcome = "ok" ->
            /\ location' = SetState(location,
                  IF location # NoLocation
                  THEN << [ location[1] EXCEPT !.address =
                             formatAddress(GeocodedAddress(g.latitude, g.longitude)) ] >>
                  ELSE NoLocation)
       [] outcome = "empty" ->
            /\ UNCHANGED location
       [] outcome = "throw" ->
            /\ location' = SetState(location,
                  IF location # NoLocation
                  THEN << [ location[1] EXCEPT !.address = "Address unavailable" ] >>
                  ELSE NoLocation)
  /\ UNCHANGED << mounted, isTracking, isLoading, error, startTime,
                  confirmOpen, locationSubscription, reverseGeocodeTimeout,
                  subs, releases, timers, pending, fgGranted, now, nUpdates,
                  lastUpdate, calls >>
  /\ UNCHANGED otherScreens

\* ---------------------------------------- startLocationTracking (170-221)
\* Start pressed: startLocationTracking runs up to the await of
\* requestBackgroundPermissionsAsync (171-175).
PressStart ==
  /\ UiFree /\ StartEnabled
  /\ calls < MaxCalls
  /\ calls' = calls + 1
  /\ error' = NoError
  /\ pending' = Inc(pending, "start_bg")
  /\ UnchangedResources
  /\ UNCHANGED << mounted, location, isLoading, startTime, confirmOpen,
                  geocoding, fgGranted, now, nUpdates, lastUpdate >>
  /\ UNCHANGED otherScreens

\* Mutant: a refused background permission aborts the start like a failure.
StartBackgroundDenialFails(outcome) ==
  /\ pending["start_bg"] > 0
  /\ CASE outcome = "granted" ->
            /\ isTracking' = SetState(isTracking, TRUE)
            /\ startTime' = SetState(startTime, now)
            /\ pending' = Move(pending, "start_bg", "start_watch")
            /\ UNCHANGED error
       [] outcome \in { "denied", "throw" } ->
            /\ error' = SetState(error, "TRACKING_ERROR")
            /\ isTracking' = SetState(isTracking, FALSE)
            /\ pending' = Dec(pending, "start_bg")
            /\ UNCHANGED startTime
  /\ UNCHANGED << mounted, location, isLoading, confirmOpen,
                  locationSubscription, reverseGeocodeTimeout, subs, releases,
                  timers, geocoding, fgGranted, now, nUpdates, lastUpdate, calls >>
  /\ UNCHANGED otherScreens

\* requestBackgroundPermissionsAsync settles (176-188, 213-220).  A refusal
\* only raises an advisory alert; the watch is requested either way.
StartBackground(outcome) ==
  /\ pending["start_bg"] > 0
  /\ CASE outcome \in { "granted", "denied" } ->
            /\ isTracking' = SetState(isTracking, TRUE)
            /\ startTime' = SetState(startTime, now)
            /\ pending' = Move(pending, "start_bg",
                              IF outcome = "granted" THEN "start_watch"
                                                     ELSE "start_watch_fg")
            /\ UNCHANGED error
       [] outcome = "throw" ->
            /\ error' = SetState(error, "TRACKING_ERROR")
            /\ isTracking' = SetState(isTracking, FALSE)
            /\ pending' = Dec(pending, "start_bg")
            /\ UNCHANGED startTime
  /\ UNCHANGED << mounted, location, isLoading, confirmOpen,
                  locationSubscription, reverseGeocodeTimeout, subs, releases,
                  timers, geocoding, fgGranted, now, nUpdates, lastUpdate, calls >>
  /\ UNCHANGED otherScreens

\* watchPositionAsync resolves with a new subscription, which the ref takes
\* (188-212).  Like a fix, a watch needs the foreground permission.  k is
\* the await point.
WatchOpened(k) ==
  /\ pending[k] > 0
  /\ fgGranted
  /\ \E i \in DOMAIN subs :
       /\ subs[i] = "none"
       /\ \A j \in DOMAIN subs : j < i => subs[j] # "none"
       /\ subs' = [ subs EXCEPT ![i] = "live" ]
       /\ locationSubscription' = i
  /\ pending' = Dec(pending, k)
  /\ UNCHANGED << mounted, location, isTracking, isLoading, error, startTime,
                  confirmOpen, reverseGeocodeTimeout, releases, timers,
                  geocoding, fgGranted, now, nUpdates, lastUpdate, calls >>
  /\ UNCHANGED otherScreens

\* watchPositionAsync rejects (213-220).
WatchFailed(k) ==
  /\ pending[k] > 0
  /\ error' = SetState(error, "TRACKING_ERROR")
  /\ isTracking' = SetState(isTracking, FALSE)
  /\ pending' = Dec(pending, k)
  /\ UNCHANGED << mounted, location, isLoading, startTime, confirmOpen,
                  locationSubscription, reverseGeocodeTimeout, subs, releases,
                  timers, geocoding, fgGranted, now, nUpdates, lastUpdate, calls >>
  /\ UNCHANGED otherScreens

\* Mutant: the callback stores the reading but does not call reverseGeocode.
WatchCallbackNoGeocode(i, coords) ==
  /\ i \in LiveSubs
  /\ nUpdates < MaxUpdates
  /\ location' = SetState(location,
         << [ latitude  |-> coords.latitude,
              longitude |-> coords.longitude,
              timestamp |-> now,
              accuracy  |-> IF coords.accuracy # 0 THEN coords.accuracy
                                                  ELSE Undefined,
              address   |-> IF location # NoLocation THEN location[1].address
                                                     ELSE NoAddress ] >>)
  /\ nUpdates' = nUpdates + 1
  /\ lastUpdate' = [ id |-> nUpdates + 1, t |-> now,
                     latitude  |-> coords.latitude,
                     longitude |-> coords.longitude ]
  /\ UnchangedResources
  /\ UNCHANGED << mounted, isLoading, error, startTime, confirmOpen,
                  geocoding, pending, fgGranted, now, calls >>
  /\ UNCHANGED otherScreens

\* Mutant: the callback stores the new reading without the previous address.
WatchCallbackDropsAddress(i, coords) ==
  /\ i \in LiveSubs
  /\ nUpdates < MaxUpdates
  /\ LET id == nUpdates + 1
     IN  /\ location' = SetState(location,
                << [ latitude  |-> coords.latitude,
                     longitude |-> coords.longitude,
                     timestamp |-> now,
                     accuracy  |-> IF coords.accuracy # 0 THEN coords.accuracy
                                                         ELSE Undefined,
                     address   |-> NoAddress ] >>)
         /\ Install(reverseGeocode(Resources, id, coords.latitude,
                                   coords.longitude))
         /\ nUpdates' = id
         /\ lastUpdate' = [ id |-> id, t |-> now,
                            latitude  |-> coords.latitude,
                            longitude |-> coords.longitude ]
  /\ UNCHANGED << mounted, isLoading, error, startTime, confirmOpen,
                  geocoding, pending, fgGranted, now, calls >>
  /\ UNCHANGED otherScreens

\* The provider delivers a reading to the callback of a live subscription
\* (194-209).
WatchCallback(i, coords) ==
  /\ i \in LiveSubs
  /\ nUpdates < MaxUpdates
  /\ LET id == nUpdates + 1
         locationData == [ latitude  |-> coords.latitude,
                           longitude |-> coords.longitude,
                           timestamp |-> now,
                           accuracy  |-> IF coords.accuracy # 0 THEN coords.accuracy
                                                               ELSE Undefined ]
         prevAddress == IF location # NoLocation THEN location[1].address
                                                 ELSE NoAddress
     IN  /\ location' = SetState(location,
                << [ latitude  |-> locationData.latitude,
                     longitude |-> locationData.longitude,
                     timestamp |-> locationData.timestamp,
                     accuracy  |-> locationData.accuracy,
                     address   |-> prevAddress ] >>)
         /\ Install(reverseGeocode(Resources, id, locationData.latitude,
                                   locationData.longitude))
         /\ nUpdates' = id
         /\ lastUpdate' = [ id |-> id, t |-> now,
                            latitude  |-> coords.latitude,
                            longitude |-> coords.longitude ]
  /\ UNCHANGED << mounted, isLoading, error, startTime, confirmOpen,
                  geocoding, pending, fgGranted, now >>
  /\ UNCHANGED calls
  /\ UNCHANGED otherScreens

\* ----------------------------------------------- handleStopTracking (237-244)
Stop ==
  /\ UiFree /\ StopEnabled
  /\ Install(stopLocationTracking(Resources))
  /\ UNCHANGED << mounted, location, isLoading, error, startTime, confirmOpen,
                  geocoding, pending, fgGranted, now, nUpdates, lastUpdate, calls >>
  /\ UNCHANGED otherScreens

\* ------------------------------------------------- completeDelivery (246-268)
\* What completeDelivery can read or write, as one value.
Session == [ location    |-> location,
             confirmOpen |-> confirmOpen,
             resources   |-> Resources ]

\* Mutant: the `if (!location) return` guard is missing.
completeDeliveryNoGuard(s) == [ s EXCEPT !.confirmOpen = TRUE ]

\* completeDelivery up to the confirmation (246-257): without a location it
\* returns after an error alert; with one it shows the confirmation.
completeDelivery(s) ==
  IF s.location = NoLocation THEN s
                             ELSE [ s EXCEPT !.confirmOpen = TRUE ]

\* Complete Delivery pressed.
Complete ==
  /\ UiFree /\ CompleteEnabled
  /\ LET s == completeDelivery(Session)
     IN  /\ confirmOpen' = s.confirmOpen
         /\ location' = s.location
         /\ Install(s.resources)
  /\ UNCHANGED << mounted, isLoading, error, startTime, geocoding,
                  pending, fgGranted, now, nUpdates, lastUpdate, calls >>
  /\ UNCHANGED otherScreens

\* Mutant: Confirm only closes the confirmation.
ConfirmNoStop ==
  /\ mounted /\ confirmOpen
  /\ confirmOpen' = FALSE
  /\ UnchangedResources
  /\ UNCHANGED << mounted, location, isLoading, error, startTime, geocoding,
                  pending, fgGranted, now, nUpdates, lastUpdate, calls >>
  /\ UNCHANGED otherScreens

\* Confirm pressed (260-265).
Confirm ==
  /\ mounted /\ confirmOpen
  /\ Install(stopLocationTracking(Resources))
  /\ confirmOpen' = FALSE
  /\ UNCHANGED << mounted, location, isLoading, error, startTime, geocoding,
                  pending, fgGranted, now, nUpdates, lastUpdate, calls >>
  /\ UNCHANGED otherScreens

\* Cancel pressed (258).
Cancel ==
  /\ mounted /\ confirmOpen
  /\ confirmOpen' = FALSE
  /\ UnchangedResources
  /\ UNCHANGED << mounted, location, isLoading, error, startTime, geocoding,
                  pending, fgGranted, now, nUpdates, lastUpdate, calls >>
  /\ UNCHANGED otherScreens

\* ------------------------------------------- useEffect cleanup (42-47)
\* The cleanup runs while the component is still mounted, then it is gone.
Unmount ==
  /\ mounted
  /\ LET r == stopLocationTracking(Resources)
     IN  Install(IF r.reverseGeocodeTimeout # Null
                 THEN [ r EXCEPT !.timers = clearTimeout(r.timers, r.reverseGeocodeTimeout) ]
                 ELSE r)
  /\ mounted' = FALSE
  /\ confirmOpen' = FALSE
  /\ UNCHANGED << location, isLoading, error, startTime, geocoding, pending,
                  fgGranted, now, nUpdates, lastUpdate, calls >>
  /\ UNCHANGED otherScreens

\* ---------------------------------------------------------------- the clock
\* Time passes.  The program waits on the clock only through the debounce
\* timer (elsewhere it just reads Date.now()), so the clock is moved only
\* while a timer is pending; a due timer fires before the clock moves on.
Tick ==
  /\ now < MaxTicks * TickMs
  /\ timers # {}
  /\ \A t \in timers : t.due > now
  /\ now' = now + TickMs
  /\ UnchangedResources
  /\ UNCHANGED << mounted, location, isLoading, error, startTime, confirmOpen,
                  geocoding, pending, fgGranted, nUpdates, lastUpdate, calls >>
  /\ UNCHANGED otherScreens

\* ------------------------------------------------------------ specification
Next ==
  \/ Retry
  \/ \E o \in { "enabled", "disabled", "throw" } : ReqServices(o)
  \/ \E o \in { "granted", "denied", "throw" } : ReqForeground(o)
  \/ Refresh
  \/ \E k \in { "req_fix", "get_fix" }, c \in Readings : FixSuccess(k, c)
  \/ \E k \in { "req_fix", "get_fix" } : FixFailure(k)
  \/ \E t \in timers : TimerFire(t)
  \/ \E g \in geocoding, o \in { "ok", "empty", "throw" } : GeocodeSettle(g, o)
  \/ PressStart
  \/ \E o \in { "granted", "denied", "throw" } : StartBackground(o)
  \/ \E k \in { "start_watch", "start_watch_fg" } : WatchOpened(k)
  \/ \E k \in { "start_watch", "start_watch_fg" } : WatchFailed(k)
  \/ \E i \in DOMAIN subs, c \in Readings : WatchCallback(i, c)
  \/ Stop
  \/ Complete
  \/ Confirm
  \/ Cancel
  \/ Unmount
  \/ Tick

Spec == Init /\ [][Next]_vars

\* The first debounce period after the mount: the clock has not moved yet,
\* so no debounce timer is due and no reverseGeocodeAsync call is made.
\* Every provider call of requestLocationPermission settles: each awaited
\* promise (56, 67, 93) is eventually resolved or rejected.
LiveNext ==
  \/ Retry
  \/ \E o \in { "enabled", "disabled", "throw" } : ReqServices(o)
  \/ \E o \in { "granted", "denied", "throw" } : ReqForeground(o)
  \/ Refresh
  \/ \E k \in { "req_fix", "get_fix" }, c \in Readings : FixSuccess(k, c)
  \/ \E k \in { "req_fix", "get_fix" } : FixFailure(k)
  \/ PressStart
  \/ \E o \in { "granted", "denied", "throw" } : StartBackground(o)
  \/ \E k \in { "start_watch", "start_watch_fg" } : WatchOpened(k)
  \/ \E k \in { "start_watch", "start_watch_fg" } : WatchFailed(k)
  \/ \E i \in DOMAIN subs, c \in Readings : WatchCallback(i, c)
  \/ Stop
  \/ Complete
  \/ Confirm
  \/ Cancel
  \/ Unmount

LiveSpec ==
  /\ Init
  /\ [][LiveNext]_vars
  /\ WF_vars(\E o \in { "enabled", "disabled", "throw" } : ReqServices(o))
  /\ WF_vars(\E o \in { "granted", "denied", "throw" } : ReqForeground(o))
  /\ WF_vars(\/ \E c \in Readings : FixSuccess("req_fix", c)
             \/ FixFailure("req_fix"))

TypeOK ==
  /\ mounted \in BOOLEAN /\ isTracking \in BOOLEAN /\ isLoading \in BOOLEAN
  /\ Len(location) <= 1
  /\ locationSubscription \in {Null} \cup DOMAIN subs
  /\ reverseGeocodeTimeout \in 0..MaxUpdates
  /\ InFlight <= MaxCalls

\* ------------------------------------- formatAddress on its own (135-143)
\* The success branch of the timer body for every reply of the provider.
\* A component the provider leaves out (null, undefined or "") is "".
Addresses ==
  [ name     : { "", "Depot 4", "Annex" },
    street   : { "", "Main St", "Oak Ave" },
    district : { "", "Downtown", "Harbor" },
    city     : { "", "Springfield", "Shelbyville" },
    region   : { "", "IL", "OR" } ]

\* A fix at t = 0 is shown, its debounce timer has fired and the
\* reverseGeocodeAsync call is in flight; reply is addresses[0] of the list
\* the provider will resolve with.
FormatInit ==
  /\ mounted = TRUE
  /\ location = << [ latitude |-> 40000000, longitude |-> -73000000,
                     timestamp |-> 0, accuracy |-> 5, address |-> NoAddress ] >>
  /\ isTracking = FALSE
  /\ isLoading = FALSE
  /\ error = NoError
  /\ startTime = Undefined
  /\ confirmOpen = FALSE
  /\ locationSubscription = Null
  /\ reverseGeocodeTimeout = 1
  /\ subs = [ i \in 1..MaxSubs |-> "none" ]
  /\ releases = [ i \in 1..MaxSubs |-> 0 ]
  /\ timers = {}
  /\ \E a \in Addresses :
       geocoding = { [ id |-> 1, latitude |-> 40000000, longitude |-> -73000000,
                       reply |-> a ] }
  /\ pending = [ k \in PCs |-> 0 ]
  /\ fgGranted = TRUE
  /\ now = DebounceMs
  /\ nUpdates = 1
  /\ calls = 1
  /\ lastUpdate = [ id |-> 1, t |-> 0, latitude |-> 40000000, longitude |-> -73000000 ]
  /\ OtherScreensInit

\* reverseGeocodeAsync resolves with a non-empty list (135-143).
FormatReply(g) ==
  /\ g \in geocoding
  /\ geocoding' = geocoding \ { g }
  /\ location' = SetState(location,
        IF location # NoLocation
        THEN << [ location[1] EXCEPT !.address = formatAddress(g.reply) ] >>
        ELSE NoLocation)
  /\ UNCHANGED << mounted, isTracking, isLoading, error, startTime,
                  confirmOpen, locationSubscription, reverseGeocodeTimeout,
                  subs, releases, timers, pending, fgGranted, now, nUpdates,
                  lastUpdate, calls >>
  /\ UNCHANGED otherScreens

FormatNext == \E g \in geocoding : FormatReply(g)

FormatSpec == FormatInit /\ [][FormatNext]_vars

\* --------------------------------- a tracking session on its own (170-221)
\* The screen right after a session has started: the mount's fix (second
\* reading, t = 0) has been geocoded at t = DebounceMs, then Start was
\* pressed and the watch opened, all at that instant.  The timer ref still
\* holds the handle of the fired timer.  nUpdates and lastUpdate count the
\* updates of the session.
TrackInit ==
  /\ mounted = TRUE
  /\ location = << [ latitude |-> 40001000, longitude |-> -73001000,
                     timestamp |-> 0, accuracy |-> Undefined,
                     address |-> formatAddress(GeocodedAddress(40001000, -73001000)) ] >>
  /\ isTracking = TRUE
  /\ isLoading = FALSE
  /\ error = NoError
  /\ startTime = DebounceMs
  /\ confirmOpen = FALSE
  /\ locationSubscription = 1
  /\ reverseGeocodeTimeout = MaxUpdates + 1
  /\ subs = [ i \in 1..MaxSubs |-> IF i = 1 THEN "live" ELSE "none" ]
  /\ releases = [ i \in 1..MaxSubs |-> 0 ]
  /\ timers = {}
  /\ geocoding = {}
  /\ pending = [ k \in PCs |-> 0 ]
  /\ fgGranted = TRUE
  /\ now = DebounceMs
  /\ nUpdates = 0
  /\ calls = 2
  /\ lastUpdate = [ id |-> 0, t |-> 0, latitude |-> 0, longitude |-> 0 ]
  /\ OtherScreensInit

\* Time passes, with or without a pending timer; a due timer fires before
\* the clock moves on.
TrackWait ==
  /\ now < DebounceMs + MaxWaits * WaitMs
  /\ \A t \in timers : t.due > now
  /\ now' = now + WaitMs
  /\ UnchangedResources
  /\ UNCHANGED << mounted, location, isLoading, error, startTime, confirmOpen,
                  geocoding, pending, fgGranted, nUpdates, lastUpdate, calls >>
  /\ UNCHANGED otherScreens

\* The provider delivers its first reading as soon as the watch is open and
\* later readings whenever it likes.
TrackCallback(i, coords) ==
  /\ nUpdates = 0 => now = startTime
  /\ WatchCallback(i, coords)

TrackNext ==
  \/ \E i \in DOMAIN subs, c \in Readings : TrackCallback(i, c)
  \/ \E t \in timers : TimerFire(t)
  \/ \E g \in geocoding, o \in { "ok", "empty", "throw" } : GeocodeSettle(g, o)
  \/ TrackWait

TrackSpec == TrackInit /\ [][TrackNext]_vars

\* The same session with a geocoding provider that always answers with a
\* non-empty list.
GeocodeOkNext ==
  \/ \E i \in DOMAIN subs, c \in Readings : TrackCallback(i, c)
  \/ \E t \in timers : TimerFire(t)
  \/ \E g \in geocoding : GeocodeSettle(g, "ok")
  \/ TrackWait

GeocodeOkSpec == TrackInit /\ [][GeocodeOkNext]_vars

\* --------------------------- TasksScreen: the add-task form (2038-2443)
\* What the user types.  String.prototype.trim() on these texts.
ShopNames     == { "", " ", "Kiosk " }
ShopLocations == { "", "Dock" }
ItemNames     == { "", "Tea" }
Quantities    == { "", "2" }

trim(str) == CASE str = " "      -> ""
               [] str = "Kiosk " -> "Kiosk"
               [] OTHER          -> str

\* items.filter(item => item.name.trim() && item.quantity.trim()) (2288).
IsValidItem(item) == trim(item.name) # "" /\ trim(item.quantity) # ""

validItems(its) == SelectSeq(its, IsValidItem)

\* Add Task opens the modal (2441); the X and the back button close it
\* (2350, 2357).
OpenAddTask ==
  /\ ~showAddTaskModal
  /\ showAddTaskModal' = TRUE
  /\ UNCHANGED << completedTasks, shopName, shopLocation, items, saving, nSaves >>
  /\ UNCHANGED << locationVars, myTasksVars, dashboardVars, profileVars >>

CloseAddTask ==
  /\ showAddTaskModal
  /\ showAddTaskModal' = FALSE
  /\ UNCHANGED << completedTasks, shopName, shopLocation, items, saving, nSaves >>
  /\ UNCHANGED << locationVars, myTasksVars, dashboardVars, profileVars >>

\* onChangeText of the two text inputs (2369, 2379).
SetShopName(text) ==
  /\ showAddTaskModal
  /\ shopName' = text
  /\ UNCHANGED << showAddTaskModal, completedTasks, shopLocation, items,
                  saving, nSaves >>
  /\ UNCHANGED << locationVars, myTasksVars, dashboardVars, profileVars >>

SetShopLocation(text) ==
  /\ showAddTaskModal
  /\ shopLocation' = text
  /\ UNCHANGED << showAddTaskModal, completedTasks, shopName, items,
                  saving, nSaves >>
  /\ UNCHANGED << locationVars, myTasksVars, dashboardVars, profileVars >>

\* addItem (2261-2268).
addItem ==
  /\ showAddTaskModal
  /\ Len(items) < MaxItems
  /\ items' = Append(items, BlankItem)
  /\ UNCHANGED << showAddTaskModal, completedTasks, shopName, shopLocation,
                  saving, nSaves >>
  /\ UNCHANGED << locationVars, myTasksVars, dashboardVars, profileVars >>

\* removeItem (2270-2274): the last remaining row is never removed.
removeItem(i) ==
  /\ showAddTaskModal
  /\ i \in 1..Len(items)
  /\ items' = IF Len(items) > 1
              THEN SubSeq(items, 1, i - 1) \o SubSeq(items, i + 1, Len(items))
              ELSE items
  /\ UNCHANGED << showAddTaskModal, completedTasks, shopName, shopLocation,
                  saving, nSaves >>
  /\ UNCHANGED << locationVars, myTasksVars, dashboardVars, profileVars >>

\* updateItem (2276-2280).
updateItem(i, field, value) ==
  /\ showAddTaskModal
  /\ i \in 1..Len(items)
  /\ items' = [ items EXCEPT ![i] = IF field = "name"
                                     THEN [ @ EXCEPT !.name = value ]
                                     ELSE [ @ EXCEPT !.quantity = value ] ]
  /\ UNCHANGED << showAddTaskModal, completedTasks, shopName, shopLocation,
                  saving, nSaves >>
  /\ UNCHANGED << locationVars, myTasksVars, dashboardVars, profileVars >>

\* Save Task pressed (2419): saveTask validates the form and runs up to
\* the await of getCurrentPositionAsync (2282-2297).  The suspended
\* invocation keeps the completedTasks, shopName, shopLocation and
\* validItems of the render it was called in.  Invalid input ends in an
\* alert.
saveTask ==
  /\ showAddTaskModal
  /\ IF trim(shopName) = "" \/ trim(shopLocation) = ""
        \/ Len(validItems(items)) = 0
     THEN UNCHANGED << saving, nSaves >>
     ELSE /\ nSaves < MaxSaves
          /\ nSaves' = nSaves + 1
          /\ saving' = saving \cup
               { [ call           |-> nSaves + 1,
                   completedTasks |-> completedTasks,
                   shopName       |-> shopName,
                   shopLocation   |-> shopLocation,
                   validItems     |-> validItems(items) ] }
  /\ UNCHANGED << showAddTaskModal, completedTasks, shopName, shopLocation,
                  items >>
  /\ UNCHANGED << locationVars, myTasksVars, dashboardVars, profileVars >>

\* getCurrentPositionAsync resolves for a saveTask (2298-2324): the record
\* is appended to the list the invocation holds and the form is reset.
SaveFix(sv, coords) ==
  /\ sv \in saving
  /\ fgGranted
  /\ LET completedTask == [ call         |-> sv.call,
                            shopName     |-> trim(sv.shopName),
                            shopLocation |-> trim(sv.shopLocation),
                            items        |-> sv.validItems,
                            latitude     |-> coords.latitude,
                            longitude    |-> coords.longitude ]
     IN  completedTasks' = Append(sv.completedTasks, completedTask)
  /\ shopName' = ""
  /\ shopLocation' = ""
  /\ items' = << BlankItem >>
  /\ saving' = saving \ { sv }
  /\ UNCHANGED << showAddTaskModal, nSaves >>
  /\ UNCHANGED << locationVars, myTasksVars, dashboardVars, profileVars >>

\* getCurrentPositionAsync rejects for a saveTask (2325-2328).
SaveFixFailed(sv) ==
  /\ sv \in saving
  /\ saving' = saving \ { sv }
  /\ UNCHANGED << showAddTaskModal, completedTasks, shopName, shopLocation,
                  items, nSaves >>
  /\ UNCHANGED << locationVars, myTasksVars, dashboardVars, profileVars >>

\* The add-task form on a screen whose location part is Ready and idle.
SaveNext ==
  \/ OpenAddTask
  \/ CloseAddTask
  \/ \E text \in ShopNames : SetShopName(text)
  \/ \E text \in ShopLocations : SetShopLocation(text)
  \/ addItem
  \/ \E i \in 1..MaxItems : removeItem(i)
  \/ \E i \in 1..MaxItems, value \in ItemNames : updateItem(i, "name", value)
  \/ \E i \in 1..MaxItems, value \in Quantities : updateItem(i, "quantity", value)
  \/ saveTask
  \/ \E sv \in saving, c \in Readings : SaveFix(sv, c)
  \/ \E sv \in saving : SaveFixFailed(sv)

\* ----------------------------------------- TasksScreen of tasks.tsx (84-)
\* Mutant: startTask without the id test.
startTaskNoIdTest(prev, taskId) ==
  [ i \in DOMAIN prev |-> [ prev[i] EXCEPT !.status = "in-progress" ] ]

\* startTask's updater (146-154).
startTask(prev, taskId) ==
  [ i \in DOMAIN prev |->
      IF prev[i].id = taskId THEN [ prev[i] EXCEPT !.status = "in-progress" ]
                             ELSE prev[i] ]

\* completeTask's updater (157-165).
completeTask(prev, taskId) ==
  [ i \in DOMAIN prev |->
      IF prev[i].id = taskId THEN [ prev[i] EXCEPT !.status = "completed" ]
                             ELSE prev[i] ]

\* A card is on screen when its task passes the filter (142-144) and the
\* detail modal does not cover the list.
CardShown(i) ==
  /\ ~showTaskDetail
  /\ i \in DOMAIN tasks
  /\ filter = "all" \/ tasks[i].status = filter

\* A filter chip (253).
SetFilter(value) ==
  /\ ~showTaskDetail
  /\ filter' = value
  /\ UNCHANGED << tasks, selectedTask, showTaskDetail >>
  /\ UNCHANGED << locationVars, taskFormVars, dashboardVars, profileVars >>

\* Start Task on a card, rendered for a pending task (220-227).
CardStart(i) ==
  /\ CardShown(i)
  /\ tasks[i].status = "pending"
  /\ tasks' = startTask(tasks, tasks[i].id)
  /\ UNCHANGED << selectedTask, showTaskDetail, filter >>
  /\ UNCHANGED << locationVars, taskFormVars, dashboardVars, profileVars >>

\* Mark Complete on a card, rendered for a task in progress (228-235).
CardComplete(i) ==
  /\ CardShown(i)
  /\ tasks[i].status = "in-progress"
  /\ tasks' = completeTask(tasks, tasks[i].id)
  /\ UNCHANGED << selectedTask, showTaskDetail, filter >>
  /\ UNCHANGED << locationVars, taskFormVars, dashboardVars, profileVars >>

\* viewTaskDetails (168-171): the modal gets a copy of the task as it is.
viewTaskDetails(i) ==
  /\ CardShown(i)
  /\ selectedTask' = tasks[i]
  /\ showTaskDetail' = TRUE
  /\ UNCHANGED << tasks, filter >>
  /\ UNCHANGED << locationVars, taskFormVars, dashboardVars, profileVars >>

\* Start Task in the detail modal, rendered while the copy is pending
\* (340-349).
DetailStart ==
  /\ showTaskDetail /\ selectedTask # NoTask
  /\ selectedTask.status = "pending"
  /\ tasks' = startTask(tasks, selectedTask.id)
  /\ showTaskDetail' = FALSE
  /\ UNCHANGED << selectedTask, filter >>
  /\ UNCHANGED << locationVars, taskFormVars, dashboardVars, profileVars >>

\* Mark Complete in the detail modal, rendered while the copy is in
\* progress (351-360).
DetailComplete ==
  /\ showTaskDetail /\ selectedTask # NoTask
  /\ selectedTask.status = "in-progress"
  /\ tasks' = completeTask(tasks, selectedTask.id)
  /\ showTaskDetail' = FALSE
  /\ UNCHANGED << selectedTask, filter >>
  /\ UNCHANGED << locationVars, taskFormVars, dashboardVars, profileVars >>

\* The modal's X and the back button (266, 273).
CloseDetail ==
  /\ showTaskDetail
  /\ showTaskDetail' = FALSE
  /\ UNCHANGED << tasks, selectedTask, filter >>
  /\ UNCHANGED << locationVars, taskFormVars, dashboardVars, profileVars >>

MyTasksNext ==
  \/ \E value \in { "all", "pending", "in-progress", "completed" } : SetFilter(value)
  \/ \E i \in DOMAIN tasks : CardStart(i)
  \/ \E i \in DOMAIN tasks : CardComplete(i)
  \/ \E i \in DOMAIN tasks : viewTaskDetails(i)
  \/ DetailStart
  \/ DetailComplete
  \/ CloseDetail

\* ------------------------------------- DashboardScreen of index.tsx (23-)
NewTaskDelayMs == 3000                 \* the mount effect's setTimeout (52)
RefreshDelayMs == 1000                 \* onRefresh's setTimeout (67)

\* Mutant: handleAcceptTask without the test of newTask.
acceptTaskNoGuard(prev, task) ==
  [ prev EXCEPT !.assignedTasks = @ + 1 ]

\* What handleAcceptTask (100-110) makes of the counters.
acceptTask(prev, task) ==
  IF task # NoTask THEN [ prev EXCEPT !.assignedTasks = @ + 1 ] ELSE prev

\* Time passes on the dashboard; a timer that is due runs first.
DashWait ==
  /\ now < MaxWaits * WaitMs
  /\ newTaskTimer = "pending" => now < NewTaskDelayMs
  /\ refreshDue # Undefined => now < refreshDue
  /\ now' = now + TickMs
  /\ UNCHANGED << mounted, location, isTracking, isLoading, error, startTime,
                  confirmOpen, locationSubscription, reverseGeocodeTimeout,
                  subs, releases, timers, geocoding, pending, fgGranted,
                  nUpdates, lastUpdate, calls >>
  /\ UNCHANGED << dashboardVars, taskFormVars, myTasksVars, profileVars >>

\* The mount effect's timer runs (40-53).
NewTaskTimerFires ==
  /\ newTaskTimer = "pending"
  /\ now >= NewTaskDelayMs
  /\ newTaskTimer' = "fired"
  /\ newTask' = mockNewTask
  /\ showNewTaskModal' = TRUE
  /\ UNCHANGED << dashboardMounted, stats, refreshing, refreshDue >>
  /\ UNCHANGED << locationVars, taskFormVars, myTasksVars, profileVars >>

\* The screen unmounts: the effect's cleanup clears the timer (55).  The
\* timer of a refresh is not cleared.
DashUnmount ==
  /\ dashboardMounted
  /\ dashboardMounted' = FALSE
  /\ newTaskTimer' = IF newTaskTimer = "pending" THEN "cleared" ELSE newTaskTimer
  /\ UNCHANGED << stats, refreshing, refreshDue, showNewTaskModal, newTask >>
  /\ UNCHANGED << locationVars, taskFormVars, myTasksVars, profileVars >>

\* Pull to refresh (57-59, 183); the list is covered while the modal is up.
onRefresh ==
  /\ dashboardMounted /\ ~showNewTaskModal /\ ~refreshing
  /\ refreshing' = TRUE
  /\ refreshDue' = now + RefreshDelayMs
  /\ UNCHANGED << dashboardMounted, stats, showNewTaskModal, newTask,
                  newTaskTimer >>
  /\ UNCHANGED << locationVars, taskFormVars, myTasksVars, profileVars >>

\* The refresh timer runs (60-67): Math.floor(Math.random() * 3) is 0..2,
\* Math.floor(Math.random() * 2) is 0..1.  Setters of an unmounted screen
\* do nothing.
RefreshDone(a, c) ==
  /\ refreshDue # Undefined /\ now >= refreshDue
  /\ refreshDue' = Undefined
  /\ IF dashboardMounted
       THEN /\ stats' = [ assignedTasks  |-> stats.assignedTasks + a,
                          completedTasks |-> stats.completedTasks + c ]
            /\ refreshing' = FALSE
       ELSE UNCHANGED << stats, refreshing >>
  /\ UNCHANGED << dashboardMounted, showNewTaskModal, newTask, newTaskTimer >>
  /\ UNCHANGED << locationVars, taskFormVars, myTasksVars, profileVars >>

\* Accept, rendered in the modal while there is a task (134, 167).
handleAcceptTask ==
  /\ dashboardMounted /\ showNewTaskModal /\ newTask # NoTask
  /\ stats' = acceptTask(stats, newTask)
  /\ showNewTaskModal' = FALSE
  /\ newTask' = NoTask
  /\ UNCHANGED << dashboardMounted, refreshing, refreshDue, newTaskTimer >>
  /\ UNCHANGED << locationVars, taskFormVars, myTasksVars, profileVars >>

\* Reject (112-116, 164).
handleRejectTask ==
  /\ dashboardMounted /\ showNewTaskModal /\ newTask # NoTask
  /\ showNewTaskModal' = FALSE
  /\ newTask' = NoTask
  /\ UNCHANGED << dashboardMounted, stats, refreshing, refreshDue,
                  newTaskTimer >>
  /\ UNCHANGED << locationVars, taskFormVars, myTasksVars, profileVars >>

\* The modal's X and the back button (123, 129): the task stays in newTask.
CloseNewTask ==
  /\ dashboardMounted /\ showNewTaskModal
  /\ showNewTaskModal' = FALSE
  /\ UNCHANGED << dashboardMounted, stats, refreshing, refreshDue, newTask,
                  newTaskTimer >>
  /\ UNCHANGED << locationVars, taskFormVars, myTasksVars, profileVars >>

DashboardNext ==
  \/ DashWait
  \/ NewTaskTimerFires
  \/ DashUnmount
  \/ onRefresh
  \/ \E a \in 0..2, c \in 0..1 : RefreshDone(a, c)
  \/ handleAcceptTask
  \/ handleRejectTask
  \/ CloseNewTask

\* --------------------------------------- ProfileScreen of profile.tsx (35-)
\* What the user may type into the name and phone fields, and the indices
\* of avatarOptions (26-33) offered by the picker.
ProfileNames  == { "Sarah Johnson", "Sarah J" }
ProfilePhones == { "+1 (555) 123-4567", "" }
AvatarChoices == { 1, 2 }

\* The header's edit button (206-211): a plain toggle.
ToggleEditing ==
  /\ ~showAvatarPicker
  /\ isEditing' = ~isEditing
  /\ UNCHANGED << showAvatarPicker, profile, editableProfile >>
  /\ UNCHANGED << locationVars, taskFormVars, myTasksVars, dashboardVars >>

\* An EditableField's onChangeText (244-267), rendered while isEditing.
EditField(field, text) ==
  /\ ~showAvatarPicker /\ isEditing
  /\ editableProfile' = [ editableProfile EXCEPT ![field] = text ]
  /\ UNCHANGED << isEditing, showAvatarPicker, profile >>
  /\ UNCHANGED << locationVars, taskFormVars, myTasksVars, dashboardVars >>

\* handleSave (61-65), rendered while isEditing (273).
handleSave ==
  /\ ~showAvatarPicker /\ isEditing
  /\ profile' = editableProfile
  /\ isEditing' = FALSE
  /\ UNCHANGED << showAvatarPicker, editableProfile >>
  /\ UNCHANGED << locationVars, taskFormVars, myTasksVars, dashboardVars >>

\* handleCancel (67-70), rendered while isEditing (276).
handleCancel ==
  /\ ~showAvatarPicker /\ isEditing
  /\ editableProfile' = profile
  /\ isEditing' = FALSE
  /\ UNCHANGED << showAvatarPicker, profile >>
  /\ UNCHANGED << locationVars, taskFormVars, myTasksVars, dashboardVars >>

\* The camera button (230-235), rendered in and out of edit mode.
OpenAvatarPicker ==
  /\ ~showAvatarPicker
  /\ showAvatarPicker' = TRUE
  /\ UNCHANGED << isEditing, profile, editableProfile >>
  /\ UNCHANGED << locationVars, taskFormVars, myTasksVars, dashboardVars >>

\* handleAvatarSelect (72-75), from the picker (183).
handleAvatarSelect(avatar) ==
  /\ showAvatarPicker
  /\ editableProfile' = [ editableProfile EXCEPT !.avatar = avatar ]
  /\ showAvatarPicker' = FALSE
  /\ UNCHANGED << isEditing, profile >>
  /\ UNCHANGED << locationVars, taskFormVars, myTasksVars, dashboardVars >>

\* The picker's X and the back button (167, 173).
CloseAvatarPicker ==
  /\ showAvatarPicker
  /\ showAvatarPicker' = FALSE
  /\ UNCHANGED << isEditing, profile, editableProfile >>
  /\ UNCHANGED << locationVars, taskFormVars, myTasksVars, dashboardVars >>

ProfileNext ==
  \/ ToggleEditing
  \/ \E text \in ProfileNames : EditField("name", text)
  \/ \E text \in ProfilePhones : EditField("phone", text)
  \/ handleSave
  \/ handleCancel
  \/ OpenAvatarPicker
  \/ \E avatar \in AvatarChoices : handleAvatarSelect(avatar)
  \/ CloseAvatarPicker

\* ---------------------------------------------- getElapsedTime (278-285)
\* Strings are sequences of characters here, so that what is rendered can be
\* read back digit by digit.
DigitChars == << "0", "1", "2", "3", "4", "5", "6", "7", "8", "9" >>

\* Number.prototype.toString() of a non-negative integer.
RECURSIVE toString(_)
toString(n) ==
  IF n < 10 THEN << DigitChars[n + 1] >>
            ELSE toString(n \div 10) \o << DigitChars[(n % 10) + 1] >>

\* String.prototype.padStart(targetLength, padString) with a one-character
\* padString.
RECURSIVE padStart(_, _, _)
padStart(str, targetLength, padString) ==
  IF Len(str) >= targetLength THEN str
  ELSE padStart(<< padString >> \o str, targetLength, padString)

\* Mutant: the seconds are not padded.
getElapsedTimeNoPad(start, t) ==
  IF start = Undefined THEN << "-", "-", ":", "-", "-" >>
  ELSE LET elapsed == t - start
           minutes == elapsed \div 60000
           seconds == (elapsed % 60000) \div 1000
       IN  toString(minutes) \o << ":" >> \o toString(seconds)

\* getElapsedTime() rendered at time t with currentTask.startTime = start
\* (a Date is truthy whatever its value; only null gives '--:--').
\* Math.floor of a non-negative quotient is \div.
getElapsedTime(start, t) ==
  IF start = Undefined THEN << "-", "-", ":", "-", "-" >>
  ELSE LET elapsed == t - start
           minutes == elapsed \div 60000
           seconds == (elapsed % 60000) \div 1000
       IN  toString(minutes) \o << ":" >> \o padStart(toString(seconds), 2, "0")

\* The instants at which the screen is looked at, in ms.
Instants == { 1000, 1999, 2000, 60999, 61000, 62000, 601000, 3601000,
              3662000 }

\* The Ready screen one debounce period after the mount: the first fix has
\* been shown and geocoded, tracking has never been started.
ElapsedInit ==
  /\ mounted = TRUE
  /\ location = << [ latitude |-> 40000000, longitude |-> -73000000,
                     timestamp |-> 0, accuracy |-> 5,
                     address |-> formatAddress(GeocodedAddress(40000000, -73000000)) ] >>
  /\ isTracking = FALSE
  /\ isLoading = FALSE
  /\ error = NoError
  /\ startTime = Undefined
  /\ confirmOpen = FALSE
  /\ locationSubscription = Null
  /\ reverseGeocodeTimeout = 1
  /\ subs = [ i \in 1..MaxSubs |-> "none" ]
  /\ releases = [ i \in 1..MaxSubs |-> 0 ]
  /\ timers = {}
  /\ geocoding = {}
  /\ pending = [ k \in PCs |-> 0 ]
  /\ fgGranted = TRUE
  /\ now = DebounceMs
  /\ nUpdates = 1
  /\ calls = 1
  /\ lastUpdate = [ id |-> 1, t |-> 0, latitude |-> 40000000, longitude |-> -73000000 ]
  /\ OtherScreensInit

\* Time passes up to a later instant.
ElapsedWait(t) ==
  /\ t > now
  /\ now' = t
  /\ UNCHANGED << mounted, location, isTracking, isLoading, error, startTime,
                  confirmOpen, locationSubscription, reverseGeocodeTimeout,
                  subs, releases, timers, geocoding, pending, fgGranted,
                  nUpdates, lastUpdate, calls >>
  /\ UNCHANGED otherScreens

\* Tracking is started and stopped while time passes.
ElapsedNext ==
  \/ \E t \in Instants : ElapsedWait(t)
  \/ PressStart
  \/ \E o \in { "granted", "denied", "throw" } : StartBackground(o)
  \/ \E k \in { "start_watch", "start_watch_fg" } : WatchOpened(k)
  \/ Stop

ElapsedSpec == ElapsedInit /\ [][ElapsedNext]_vars

\* The My Tasks tab, the location tab staying as its mount left it.
MyTasksSpec == Init /\ [][MyTasksNext]_vars

\* The dashboard tab from its mount on.
DashboardSpec == Init /\ [][DashboardNext]_vars

\* The profile tab from its mount on.
ProfileSpec == Init /\ [][ProfileNext]_vars

\* The add-task form of the TasksScreen variant on that Ready screen.
SaveSpec == ElapsedInit /\ [][SaveNext]_vars

\* ================================================================== claims

\* C1: when the screen unmounts, the cleanup removes the subscription the
\* ref holds and leaves the ref null, and no timer scheduled before the
\* unmount is still pending afterwards.
C1_UnmountReleases ==
  [][ (mounted /\ ~mounted') =>
        /\ locationSubscription' = Null
        /\ locationSubscription # Null => subs'[locationSubscription] = "removed"
        /\ timers' = {} ]_vars

\* C1 witness: unmounted, a subscription was removed exactly once, and the
\* timer of the latest update was cancelled before it could fire.
C1_Witness ==
  /\ ~mounted
  /\ \E i \in DOMAIN subs : subs[i] = "removed" /\ releases[i] = 1
  /\ lastUpdate.id >= 1 /\ now < lastUpdate.t + DebounceMs
  /\ timers = {} /\ locationSubscription = Null

\* C2 (as claimed): once the screen is unmounted nothing changes the UI
\* state, no new debounce timer is scheduled and no subscription becomes live.
C2_QuietAfterUnmount ==
  [][ ~mounted =>
        /\ uiState' = uiState
        /\ timers' \subseteq timers
        /\ { i \in DOMAIN subs : subs'[i] = "live" } \subseteq LiveSubs ]_vars

C4_StopIdempotent ==
  LET once  == stopLocationTracking(Resources)
      twice == stopLocationTracking(once)
  IN  /\ twice = once
      /\ \A i \in DOMAIN subs : twice.releases[i] <= 1
      /\ ( locationSubscription = Null /\ reverseGeocodeTimeout = Null /\ ~isTracking )
           => once = Resources

\* C4 witness: a stop has run on a session that held a subscription, and
\* the screen is still mounted, so stop can run again.
C4_Witness ==
  /\ mounted /\ ~isTracking /\ locationSubscription = Null
  /\ reverseGeocodeTimeout = Null
  /\ \E i \in DOMAIN subs : subs[i] = "removed" /\ releases[i] = 1
  /\ location # NoLocation

\* C5: right after stopLocationTracking (Stop, a confirmed completion, the
\* unmount cleanup) the held subscription is removed, both refs are null,
\* no debounce timer is pending and isTracking is false.
C5_StopPostcondition ==
  [][ ( \/ isTracking /\ ~isTracking' /\ Stop
        \/ confirmOpen /\ ~confirmOpen' /\ mounted' /\ Confirm
        \/ mounted /\ ~mounted' /\ Unmount ) =>
        /\ locationSubscription' = Null
        /\ locationSubscription # Null => locationSubscription \notin
                                            { i \in DOMAIN subs : subs'[i] = "live" }
        /\ reverseGeocodeTimeout' = Null
        /\ timers' = {}
        /\ isTracking' = FALSE ]_vars

\* C5 witness: after a stop on the mounted screen that cancelled the timer
\* of the latest update before it was due.
C5_Witness ==
  /\ mounted /\ ~isTracking /\ locationSubscription = Null
  /\ reverseGeocodeTimeout = Null /\ timers = {}
  /\ lastUpdate.id >= 1 /\ now < lastUpdate.t + DebounceMs
  /\ \E i \in DOMAIN subs : subs[i] = "removed"

\* C6: while mounted at most one debounce timer is pending; it is the one
\* the ref names, it belongs to the latest position update and it is due
\* 1000 ms after that update.
C6_OneTimer ==
  mounted =>
    /\ Cardinality(timers) <= 1
    /\ \A t \in timers : /\ t.id = reverseGeocodeTimeout
                         /\ t.id = lastUpdate.id
                         /\ t.due = lastUpdate.t + DebounceMs

\* C6 witness: a second update arrived while the first one's timer could
\* not yet have fired, and a single timer is pending.
C6_Witness ==
  /\ mounted /\ nUpdates = 2 /\ now < DebounceMs
  /\ Cardinality(timers) = 1

\* C7: a reverse-geocode call is issued only for the latest position
\* update, with that update's coordinates, and not before 1000 ms have
\* passed since it; so of the updates inside one 1000 ms window only the
\* last one can get a call.
C7_Debounce ==
  [][ \A g \in geocoding' \ geocoding :
        /\ g.id = lastUpdate.id
        /\ g.latitude = lastUpdate.latitude
        /\ g.longitude = lastUpdate.longitude
        /\ now >= lastUpdate.t + DebounceMs ]_vars

\* C7 witness: two updates less than 1000 ms apart, and the call in flight
\* is the second one's.
C7_Witness ==
  /\ nUpdates = 2 /\ now < 2 * DebounceMs
  /\ \E g \in geocoding : g.id = 2 /\ g.latitude = lastUpdate.latitude
  /\ Cardinality(geocoding) = 1

\* C8 (as claimed): once the foreground permission has been refused, and
\* as long as it is not granted, location stays unset and every state in
\* which no handler is in flight has error PERMISSION_DENIED.
C8_DeniedStays ==
  [][ ( mounted /\ mounted' /\ error = "PERMISSION_DENIED"
        /\ location = NoLocation /\ ~fgGranted /\ ~fgGranted' )
      => /\ location' = NoLocation
         /\ InFlight' = 0 => error' = "PERMISSION_DENIED" ]_vars

\* C8 (amended): the step in which the foreground permission request is
\* refused sets error to PERMISSION_DENIED and isLoading to false, requests
\* no fix and leaves location as it was.
C8_DeniedStep ==
  [][ ReqForeground("denied") =>
        /\ mounted => ( error' = "PERMISSION_DENIED" /\ ~isLoading' )
        /\ location' = location
        /\ pending'["req_fix"] = pending["req_fix"]
        /\ pending'["get_fix"] = pending["get_fix"]
        /\ timers' = timers ]_vars

\* C8 witness: the permission was refused at mount, nothing is in flight.
C8_Witness ==
  /\ mounted /\ error = "PERMISSION_DENIED" /\ location = NoLocation
  /\ ~isLoading /\ InFlight = 0 /\ ~fgGranted

\* C9: when the service check reports the location service disabled, the
\* handler sets LOCATION_DISABLED and isLoading false and returns: no
\* foreground-permission request, no fix request, location unchanged.
C9_ServiceDisabled ==
  [][ ReqServices("disabled") =>
        /\ mounted => ( error' = "LOCATION_DISABLED" /\ ~isLoading' )
        /\ location' = location
        /\ pending'["req_perm"] = pending["req_perm"]
        /\ pending'["req_fix"] = pending["req_fix"]
        /\ pending'["get_fix"] = pending["get_fix"]
        /\ InFlight' = InFlight - 1 ]_vars

\* C9 witness: the service was found disabled and the handler has returned.
C9_Witness ==
  /\ mounted /\ error = "LOCATION_DISABLED" /\ ~isLoading
  /\ pending["req_perm"] = 0 /\ pending["req_fix"] = 0

\* C10 (as claimed): while a requestLocationPermission or getCurrentLocation
\* is in flight on the mounted screen, isLoading is true.
C10_LoadingWhileInFlight ==
  ( mounted /\ pending["req_svc"] + pending["req_perm"] + pending["req_fix"]
               + pending["get_fix"] > 0 )
    => isLoading

\* C11: a refresh is transient.  The step in which the provider call of a
\* refresh (getCurrentPositionAsync called from the Refresh button) completes,
\* with a reading or with a failure, leaves isLoading false, and neither
\* the Refresh press nor that completion changes isTracking or the held
\* subscription handle.
C11_RefreshTransient ==
  [][ pending'["get_fix"] # pending["get_fix"] =>
        /\ isTracking' = isTracking
        /\ locationSubscription' = locationSubscription
        /\ subs' = subs
        /\ ( pending'["get_fix"] < pending["get_fix"] /\ mounted ) => ~isLoading' ]_vars

\* C11 witness: a fix requested while tracking has failed; the session is
\* still tracking with its live subscription and the loading flag is down.
C11_Witness ==
  /\ mounted /\ isTracking /\ locationSubscription \in LiveSubs
  /\ error = "LOCATION_ERROR" /\ ~isLoading /\ InFlight = 0

\* C12: the step in which getCurrentPositionAsync rejects sets error to
\* LOCATION_ERROR and leaves location exactly as it was, address included.
C12_FixFailureKeepsPosition ==
  [][ ( nUpdates' = nUpdates
        /\ ( pending'["req_fix"] < pending["req_fix"]
             \/ pending'["get_fix"] < pending["get_fix"] )
        /\ ( FixFailure("req_fix") \/ FixFailure("get_fix") ) ) =>
        /\ mounted => error' = "LOCATION_ERROR"
        /\ location' = location ]_vars

\* C12 witness: a fix has failed while a position with a resolved address
\* was known, and that position is still shown.
C12_Witness ==
  /\ mounted /\ error = "LOCATION_ERROR" /\ ~isLoading
  /\ location # NoLocation
  /\ location[1].address = "Main St, Springfield"

C14_GeocodeFailureSilent ==
  [][ \A g \in geocoding :
        ( geocoding' = geocoding \ { g } /\ GeocodeSettle(g, "throw") ) =>
        /\ ( mounted /\ location # NoLocation ) =>
              location' = << [ location[1] EXCEPT !.address = "Address unavailable" ] >>
        /\ location = NoLocation => location' = NoLocation
        /\ error' = error /\ isLoading' = isLoading /\ isTracking' = isTracking
        /\ locationSubscription' = locationSubscription /\ subs' = subs ]_vars

\* C14 witness: the geocode of the shown position failed during a tracking
\* session; the session goes on without an error.
C14_Witness ==
  /\ mounted /\ location # NoLocation
  /\ location[1].address = "Address unavailable"
  /\ error = NoError /\ isTracking /\ locationSubscription \in LiveSubs

\* C15 (as claimed): when reverseGeocodeAsync resolves with an empty list,
\* the address of the current location becomes the sentinel text
\* ("Address unavailable"; "Unknown location" is accepted too) and error is
\* unchanged.
C15_EmptyResultSentinel ==
  [][ \A g \in geocoding :
        ( geocoding' = geocoding \ { g } /\ mounted /\ location # NoLocation
          /\ GeocodeSettle(g, "empty") ) =>
        /\ location'[1].address \in { "Address unavailable", "Unknown location" }
        /\ error' = error ]_vars

\* C16: the formatted address is the present (non-empty) components among
\* name, street, district, city, region, in that order, joined by ", ", and
\* "Unknown location" when none is present; street "Main St" and city
\* "Springfield" alone give "Main St, Springfield".
C16_FormatAddress ==
  [][ \A g \in geocoding :
        LET a == g.reply
            present == SelectSeq(<< a.name, a.street, a.district, a.city, a.region >>,
                                 LAMBDA x : x # "")
            RECURSIVE CommaJoined(_)
            CommaJoined(q) == IF Len(q) = 1 THEN Head(q)
                              ELSE Head(q) \o ", " \o CommaJoined(Tail(q))
        IN  geocoding' = geocoding \ { g } =>
              /\ location' # NoLocation
              /\ present = << >> => location'[1].address = "Unknown location"
              /\ present # << >> => location'[1].address = CommaJoined(present)
              /\ a = [ name |-> "", street |-> "Main St", district |-> "",
                       city |-> "Springfield", region |-> "" ]
                   => location'[1].address = "Main St, Springfield" ]_vars

\* C16 witness: a reply with all five components has been formatted.
C16_Witness ==
  /\ geocoding = {} /\ location # NoLocation
  /\ location[1].address = "Depot 4, Main St, Downtown, Springfield, IL"

\* C17: a step in which a reverseGeocodeAsync call settles - with a result,
\* with an empty list or with a failure, for the current reading or for a
\* superseded one - leaves latitude, longitude, timestamp and accuracy of
\* location as they were, and leaves location null when it was null.
C17_GeocodePatchesAddressOnly ==
  [][ ( geocoding' # geocoding /\ geocoding' \subseteq geocoding ) =>
        /\ location = NoLocation => location' = NoLocation
        /\ location # NoLocation =>
              /\ location' # NoLocation
              /\ location'[1].latitude  = location[1].latitude
              /\ location'[1].longitude = location[1].longitude
              /\ location'[1].timestamp = location[1].timestamp
              /\ location'[1].accuracy  = location[1].accuracy ]_vars

\* C17 witness: no watch was ever opened, so the second reading came from a
\* one-shot fix, which stores no address; its own geocode is still waiting
\* on the debounce timer, so the address shown was patched in by the late
\* failure of the first reading's geocode, and the coordinates are the
\* second reading's.
C17_Witness ==
  /\ mounted /\ nUpdates = 2
  /\ \A i \in DOMAIN subs : subs[i] = "none"
  /\ \E t \in timers : t.id = 2
  /\ location # NoLocation
  /\ location[1].latitude = lastUpdate.latitude
  /\ location[1].longitude = lastUpdate.longitude
  /\ location[1].address = "Address unavailable"

\* C18 (as claimed): a reverseGeocodeAsync result that arrives after the
\* reading it was requested for has been superseded by a newer reading is
\* discarded: the step in which it settles leaves location as it was.
C18_StaleGeocodeDiscarded ==
  [][ \A g \in geocoding :
        ( geocoding' = geocoding \ { g } /\ g.id # lastUpdate.id ) =>
        location' = location ]_vars

\* C19: a refused background permission is advisory only.  The step in
\* which requestBackgroundPermissionsAsync answers "denied" sets isTracking,
\* goes on to request the watch and leaves error as it was (null since the
\* Start press cleared it); when that watch opens, the ref holds the new
\* live subscription and isTracking and error are again left as they were.
C19_BackgroundDenialAdvisory ==
  [][ /\ ( pending'["start_bg"] < pending["start_bg"] /\ StartBackground("denied") ) =>
           /\ mounted => isTracking'
           /\ error' = error
           /\ pending'["start_watch_fg"] = pending["start_watch_fg"] + 1
           /\ InFlight' = InFlight
      /\ ( pending'["start_watch_fg"] < pending["start_watch_fg"]
           /\ WatchOpened("start_watch_fg") ) =>
           /\ locationSubscription' # Null
           /\ subs'[locationSubscription'] = "live"
           /\ isTracking' = isTracking
           /\ error' = error ]_vars

\* C19 witness: the background permission was refused, and the session is
\* tracking without an error while its watch is being opened.
C19_Witness ==
  /\ mounted /\ pending["start_watch_fg"] = 1
  /\ isTracking /\ error = NoError /\ fgGranted

\* C20: completeDelivery without a location is refused and changes nothing:
\* in every state with no location it leaves the session exactly as it is,
\* and run on any reachable session with the location taken away it again
\* changes nothing, so it does not call stopLocationTracking: isTracking,
\* the subscription handle and the subscriptions are kept.
C20_CompleteRefusedWithoutFix ==
  LET blank == [ Session EXCEPT !.location = NoLocation ]
      after == completeDelivery(blank)
  IN  /\ location = NoLocation => completeDelivery(Session) = Session
      /\ after = blank
      /\ after.resources.isTracking = isTracking
      /\ after.resources.locationSubscription = locationSubscription
      /\ after.resources.subs = subs
      /\ after.confirmOpen = confirmOpen

\* C20 witness: the permission is granted but the only fix so far has
\* failed, so the idle screen has no location, and no confirmation shows.
C20_Witness ==
  /\ mounted /\ fgGranted /\ location = NoLocation /\ ~confirmOpen
  /\ ~isLoading /\ InFlight = 0 /\ error = "LOCATION_ERROR"
  /\ completeDelivery(Session) = Session

\* C21: pressing Confirm in the completion dialog runs stopLocationTracking:
\* afterwards the subscription that was held is removed, both refs are null,
\* no debounce timer is pending and isTracking is false, while location,
\* error and isLoading are as before.  Pressing Cancel changes nothing but
\* the dialog.
C21_ConfirmStopsCancelKeeps ==
  [][ ( confirmOpen /\ ~confirmOpen' /\ mounted' ) =>
        /\ Confirm =>
              /\ locationSubscription' = Null
              /\ locationSubscription # Null =>
                    subs'[locationSubscription] = "removed"
              /\ reverseGeocodeTimeout' = Null
              /\ timers' = {}
              /\ ~isTracking'
              /\ location' = location /\ error' = error /\ isLoading' = isLoading
        /\ Cancel =>
              /\ Resources' = Resources
              /\ uiState' = uiState
              /\ geocoding' = geocoding /\ pending' = pending ]_vars

\* C21 witness: a delivery at a resolved address was completed while
\* tracking; the subscription is removed, nothing is pending, no error.
C21_Witness ==
  /\ mounted /\ ~confirmOpen /\ ~isTracking /\ error = NoError
  /\ locationSubscription = Null /\ reverseGeocodeTimeout = Null /\ timers = {}
  /\ \E i \in DOMAIN subs : subs[i] = "removed" /\ releases[i] = 1
  /\ location # NoLocation /\ location[1].address = "Main St, Springfield"

\* C22 (as claimed): in every reachable state error is null or one of
\* LOCATION_DISABLED (ServiceDisabled), PERMISSION_DENIED (PermissionDenied),
\* LOCATION_ERROR (FixUnavailable).
C22_ThreeErrorKinds ==
  error \in { NoError, "LOCATION_DISABLED", "PERMISSION_DENIED", "LOCATION_ERROR" }

\* C22 (amended): error is always null or one of the five codes
\* LOCATION_DISABLED, PERMISSION_DENIED, PERMISSION_ERROR, LOCATION_ERROR,
\* TRACKING_ERROR, and every rejected provider call is caught by the handler
\* that made it: the handler ends in that step and, on the mounted screen,
\* error is PERMISSION_ERROR for the service check and the foreground
\* permission request, LOCATION_ERROR for a fix, TRACKING_ERROR for the
\* background permission request and the watch; a rejected reverse geocode
\* leaves error alone.
C22_FiveErrorCodes ==
  /\ []( error \in { NoError, "LOCATION_DISABLED", "PERMISSION_DENIED",
                     "PERMISSION_ERROR", "LOCATION_ERROR", "TRACKING_ERROR" } )
  /\ [][
      /\ ( pending' # pending /\ InFlight' = InFlight - 1 /\ mounted ) =>
            /\ ( \/ pending'["req_svc"] < pending["req_svc"]
                      /\ ReqServices("throw")
                 \/ pending'["req_perm"] < pending["req_perm"]
                      /\ ReqForeground("throw") )
                  => error' = "PERMISSION_ERROR"
            /\ ( \/ pending'["req_fix"] < pending["req_fix"]
                      /\ FixFailure("req_fix")
                 \/ pending'["get_fix"] < pending["get_fix"]
                      /\ FixFailure("get_fix") )
                  => error' = "LOCATION_ERROR"
            /\ ( \/ pending'["start_bg"] < pending["start_bg"]
                      /\ StartBackground("throw")
                 \/ pending'["start_watch"] < pending["start_watch"]
                      /\ WatchFailed("start_watch")
                 \/ pending'["start_watch_fg"] < pending["start_watch_fg"]
                      /\ WatchFailed("start_watch_fg") )
                  => error' = "TRACKING_ERROR"
      /\ ( geocoding' # geocoding /\ geocoding' \subseteq geocoding )
            => ( error' = error /\ InFlight' = InFlight ) ]_vars

\* C22 witness: the service check or the permission request threw at mount
\* and the idle screen shows PERMISSION_ERROR.
C22_Witness ==
  /\ mounted /\ error = "PERMISSION_ERROR" /\ ~isLoading /\ InFlight = 0
  /\ location = NoLocation

\* C23: in a tracking session every watch callback makes location take the
\* callback's coordinates and leaves exactly one debounce timer, for that
\* update, due 1000 ms later; a callback that arrives more than 1000 ms
\* after the previous update finds that update's timer already fired, so
\* nothing is cancelled; and every reverse-geocode call is issued exactly
\* 1000 ms after the latest update, with its coordinates, is the only call
\* for that update and leaves no timer behind.  So two callbacks more than
\* 1000 ms apart give two position updates and one call per update.
C23_EndToEnd ==
  [][ /\ nUpdates' = nUpdates + 1 =>
            /\ location' # NoLocation
            /\ location'[1].latitude = lastUpdate'.latitude
            /\ location'[1].longitude = lastUpdate'.longitude
            /\ location'[1].timestamp = now
            /\ timers' = { [ id |-> nUpdates', latitude |-> lastUpdate'.latitude,
                             longitude |-> lastUpdate'.longitude,
                             due |-> now + DebounceMs ] }
            /\ ( lastUpdate.id >= 1 /\ now > lastUpdate.t + DebounceMs ) =>
                  /\ timers = {}
                  /\ \A g \in geocoding : g.id # nUpdates'
      /\ geocoding' \ geocoding # {} =>
            /\ geocoding' \ geocoding =
                  { [ id |-> lastUpdate.id, latitude |-> lastUpdate.latitude,
                      longitude |-> lastUpdate.longitude ] }
            /\ now = lastUpdate.t + DebounceMs
            /\ \A g \in geocoding : g.id # lastUpdate.id
            /\ timers' = {} ]_vars

\* C23 witness: the first callback came at the start with the first
\* reading and its address has been resolved; the second callback came
\* 5200 ms later with the second reading, and 1000 ms after it the call for
\* the second reading has just been issued.
C23_Witness ==
  /\ nUpdates = 2
  /\ lastUpdate.t = startTime + 5200
  /\ now = lastUpdate.t + DebounceMs
  /\ location # NoLocation
  /\ location[1].latitude = 40001000 /\ location[1].timestamp = lastUpdate.t
  /\ location[1].address = "Main St, Springfield"
  /\ geocoding = { [ id |-> 2, latitude |-> 40001000, longitude |-> -73001000 ] }
  /\ timers = {}

\* C24 (as claimed): on the mounted screen at most one watch subscription
\* is live (opened and not removed) in every reachable state.
C24_OneLiveSubscription ==
  mounted => Cardinality(LiveSubs) <= 1

\* C25 (as claimed): when isTracking is false after an explicit stop or a
\* confirmed completion, no watch subscription is live.  Stated for the
\* mounted screen with a single startLocationTracking invoked besides the
\* mount's handler, so that no failed or second start is involved: there
\* isTracking can only have gone back to false through Stop or Confirm.
C25_StoppedMeansNoSubscription ==
  ( mounted /\ calls <= 2 /\ ~isTracking ) => LiveSubs = {}

\* C26 (as claimed): startLocationTracking begins only in Ready: the
\* foreground permission is granted, no requestLocationPermission is in
\* flight (at any of its three awaits) and error is null.
C26_StartOnlyFromReady ==
  [][ pending'["start_bg"] > pending["start_bg"]
        => /\ fgGranted
           /\ pending["req_svc"] = 0
           /\ pending["req_perm"] = 0
           /\ pending["req_fix"] = 0
           /\ error = NoError ]_vars

\* C27 (as claimed): when a provider call of startLocationTracking fails
\* (the background-permission request or the watch start: an invocation
\* ends without a subscription having been opened), the mounted screen is
\* left with isTracking false, error TRACKING_ERROR, no subscription handle
\* in locationSubscription, and location unchanged.
C27_StartFailureCaught ==
  [][ ( /\ mounted
        /\ pending'["start_bg"] + pending'["start_watch"]
              + pending'["start_watch_fg"]
            < pending["start_bg"] + pending["start_watch"]
              + pending["start_watch_fg"]
        /\ subs' = subs )
        => /\ ~isTracking'
           /\ error' = "TRACKING_ERROR"
           /\ locationSubscription' = Null
           /\ location' = location ]_vars

\* C28: no hard-error state is a dead end.  On the mounted screen with no
\* alert open, Retry can be pressed whenever error is non-null; pressing it
\* clears error (and sets the loading flag) before anything else; and a
\* requestLocationPermission in flight leads to error = null, isLoading =
\* false and location set, unless a provider call fails meanwhile (every
\* such failure sets error) or the screen is unmounted.
C28_RetryRecovers ==
  /\ []( ( UiFree /\ error # NoError /\ calls < MaxCalls ) => ENABLED Retry )
  /\ [][ pending'["req_svc"] > pending["req_svc"]
           => error' = NoError /\ isLoading' ]_vars
  /\ ( mounted /\ pending["req_svc"] > 0 )
       ~> ( \/ error = NoError /\ ~isLoading /\ location # NoLocation
            \/ error # NoError
            \/ ~mounted )

\* A Retry after the mount's request failed has recovered: the second
\* handler call was neither a Refresh (the error would still show) nor a
\* Start (disabled while the error shows).
C28_Witness ==
  /\ mounted /\ calls = 2 /\ InFlight = 0 /\ nUpdates = 1
  /\ startTime = Undefined
  /\ error = NoError /\ ~isLoading /\ location # NoLocation

\* What a rendered elapsed time reads as: the number before the colon and
\* the number after it.
DigitValue(c) == CHOOSE d \in 0..9 : DigitChars[d + 1] = c

RECURSIVE parseDigits(_)
parseDigits(str) ==
  IF str = << >> THEN 0
  ELSE 10 * parseDigits(SubSeq(str, 1, Len(str) - 1)) + DigitValue(str[Len(str)])

IsDigits(str) ==
  /\ str # << >>
  /\ \A i \in 1..Len(str) : \E d \in 1..10 : DigitChars[d] = str[i]

\* C29: the rendered elapsed time is "--:--" while tracking has never been
\* started; otherwise, with elapsed = now - startTime >= 0, it is M:SS
\* where M = floor(elapsed / 60000) in decimal and SS = floor((elapsed mod
\* 60000) / 1000) in exactly two digits, 0 <= SS <= 59 and 60 * M + SS =
\* floor(elapsed / 1000); and every start that gets as far as
\* setIsTracking(true) sets startTime to the instant of that step.
C29_ElapsedTime ==
  /\ []( LET str == getElapsedTime(startTime, now)
             n   == Len(str)
         IN  IF startTime = Undefined
             THEN str = << "-", "-", ":", "-", "-" >>
             ELSE LET elapsed == now - startTime
                      M  == SubSeq(str, 1, n - 3)
                      SS == SubSeq(str, n - 1, n)
                  IN  /\ elapsed >= 0
                      /\ n >= 4 /\ str[n - 2] = ":"
                      /\ IsDigits(M) /\ IsDigits(SS)
                      /\ ( Len(M) > 1 => M[1] # "0" )
                      /\ parseDigits(M) = elapsed \div 60000
                      /\ parseDigits(SS) = (elapsed % 60000) \div 1000
                      /\ parseDigits(SS) \in 0..59
                      /\ 60 * parseDigits(M) + parseDigits(SS)
                           = elapsed \div 1000 )
  /\ []( calls = 1 => startTime = Undefined )
  /\ [][ pending'["start_bg"] < pending["start_bg"] /\ isTracking'
           => startTime' = now ]_vars

\* A second tracking session, started 62 s after the mount, is looked at
\* one hour later: "60:00".
C29_Witness ==
  /\ calls = 3 /\ isTracking
  /\ startTime = 62000 /\ now = 3662000
  /\ getElapsedTime(startTime, now) = << "6", "0", ":", "0", "0" >>

\* C30: once location has been set it is never set back to null while the
\* screen instance lives: no step takes location from a reading to null.
C30_PositionNeverUnset ==
  [][ location # NoLocation => location' # NoLocation ]_vars

\* The position survives everything that follows it: its geocoding failed,
\* tracking was started and stopped, and a Retry ended in a permission
\* denial.
C30_Witness ==
  /\ mounted /\ location # NoLocation
  /\ location[1].address = "Address unavailable"
  /\ startTime # Undefined /\ ~isTracking
  /\ error = "PERMISSION_DENIED"

\* C31: getCurrentLocation never clears error.  No step of it (the Refresh
\* press, the fix arriving, the fix failing; alone or nested in
\* requestLocationPermission) takes error from non-null to null; error
\* goes back to null only in the step that starts requestLocationPermission
\* or startLocationTracking; and Start is never pressed while error shows.
C31_RefreshKeepsError ==
  [][ /\ ( error # NoError /\ error' = NoError )
           => \/ pending'["req_svc"] > pending["req_svc"]
              \/ pending'["start_bg"] > pending["start_bg"]
      /\ ( error # NoError
           /\ ( pending'["get_fix"] # pending["get_fix"]
                \/ pending'["req_fix"] < pending["req_fix"] ) )
           => error' # NoError
      /\ pending'["start_bg"] > pending["start_bg"] => error = NoError ]_vars

\* After the mount's request and one Refresh the idle screen shows a
\* position next to LOCATION_ERROR: of the two getCurrentLocation calls one
\* failed and one stored the position, and the error is still there.
C31_Witness ==
  /\ mounted /\ calls = 2 /\ InFlight = 0 /\ nUpdates = 1
  /\ startTime = Undefined /\ ~isLoading
  /\ error = "LOCATION_ERROR" /\ location # NoLocation
  /\ ~StartEnabled

\* C32 (as claimed): when every reverse-geocode call succeeds with a
\* non-empty result, then once nothing is left to happen to the address (no
\* debounce timer pending, no reverseGeocodeAsync call in flight) the
\* address shown is the one resolved for the coordinates shown, whatever
\* the order in which overlapping calls completed.
C32_AddressMatchesPosition ==
  ( mounted /\ timers = {} /\ geocoding = {} /\ location # NoLocation )
    => location[1].address
         = formatAddress(GeocodedAddress(location[1].latitude,
                                         location[1].longitude))

\* C33 (as claimed): completedTasks only grows by appending.  Every step
\* that changes it appends exactly one record to the list as it was, also
\* when a saveTask was started while an earlier one was awaiting its fix.
C33_CompletedTasksAppendOnly ==
  [][ completedTasks' # completedTasks
        => /\ Len(completedTasks') = Len(completedTasks) + 1
           /\ SubSeq(completedTasks', 1, Len(completedTasks)) = completedTasks
    ]_vars

\* C34: a task's status only moves forward.  Every step keeps the number,
\* order and ids of the tasks, changes at most one task, and changes a
\* status only from pending to in-progress or from in-progress to
\* completed: a completed or delayed task never changes, and no task goes
\* from pending straight to completed.
C34_StatusMovesForward ==
  [][ tasks' # tasks
        => /\ Len(tasks') = Len(tasks)
           /\ \A i \in DOMAIN tasks :
                 /\ tasks'[i].id = tasks[i].id
                 /\ \/ tasks'[i].status = tasks[i].status
                    \/ tasks[i].status = "pending"
                         /\ tasks'[i].status = "in-progress"
                    \/ tasks[i].status = "in-progress"
                         /\ tasks'[i].status = "completed"
           /\ Cardinality({ i \in DOMAIN tasks : tasks'[i] # tasks[i] }) = 1
    ]_vars

\* Task 1 was started from the detail modal and completed from its card;
\* the modal's copy still says pending, task 4 is still delayed.
C34_Witness ==
  /\ tasks[1].status = "completed" /\ tasks[2].status = "completed"
  /\ tasks[3].status = "completed" /\ tasks[4].status = "delayed"
  /\ ~showTaskDetail
  /\ selectedTask # NoTask /\ selectedTask.id = "1"
  /\ selectedTask.status = "pending"

\* C35: the new task is put into newTask only by the mount timer, 3 s after
\* mount on a mounted screen, and that timer runs at most once and never
\* after an unmount; Accept adds exactly 1 to assignedTasks, leaves
\* completedTasks alone and clears the offer; Reject and closing the modal
\* leave both counters unchanged; with no offer, what Accept makes of the
\* counters is the counters unchanged, and the modal is not up.
C35_NewTaskOfferedOnce ==
  /\ [](newTask # NoTask => newTaskTimer = "fired" /\ now >= NewTaskDelayMs)
  /\ [](newTask = NoTask
          => ~showNewTaskModal /\ acceptTask(stats, newTask) = stats)
  /\ [][ newTaskTimer' # newTaskTimer => newTaskTimer = "pending" ]_vars
  /\ [][ newTask' # newTask /\ newTask' # NoTask
          => /\ newTaskTimer = "pending" /\ newTaskTimer' = "fired"
             /\ dashboardMounted /\ now = NewTaskDelayMs ]_vars
  /\ [][ showNewTaskModal' # showNewTaskModal /\ handleAcceptTask
          => /\ stats'.assignedTasks = stats.assignedTasks + 1
             /\ stats'.completedTasks = stats.completedTasks
             /\ newTask' = NoTask ]_vars
  /\ [][ showNewTaskModal' # showNewTaskModal
            /\ (handleRejectTask \/ CloseNewTask)
          => stats' = stats ]_vars

\* The offer was made at 3 s and taken: the modal is down, the offer is
\* cleared and assignedTasks is one up with no refresh under way.
C35_Witness ==
  /\ dashboardMounted /\ newTaskTimer = "fired" /\ now = NewTaskDelayMs
  /\ newTask = NoTask /\ ~showNewTaskModal
  /\ ~refreshing /\ refreshDue = Undefined
  /\ stats = [ assignedTasks |-> 13, completedTasks |-> 38 ]

\* C36: outside edit mode the draft equals the saved profile.
C36_NoDraftOutsideEditMode ==
  ~isEditing => editableProfile = profile

====
